---- MODULE Spec2Model ----
(***************************************************************************)
(* Job lifecycle of the stt_api service: the batch pipeline and its Celery *)
(* task, the SSE subscription endpoint, the stream-create endpoint, the    *)
(* live socket handler and the StreamPipeline, over the durable store      *)
(* (DatabaseService), the Redis mirror and the Redis pub/sub channels.     *)
(*                                                                         *)
(* Strings are modelled as sequences of tokens so that " ".join is a real  *)
(* concatenation: the text "a" is <<"a">>, the empty string is <<>>.       *)
(***************************************************************************)
EXTENDS Integers, Sequences, FiniteSets, TLC

\* ------------------------------------------------------------------ bounds
MaxSegs == 2        \* segments a recognizer run / a live socket may produce
MaxFaults == 1      \* storage operations that may fail in one behaviour
MaxReqs == 3        \* job ids; stream-create requests of the conference scenario
MaxChunks == 2      \* audio packets a live socket may deliver
MaxFrames == 14     \* frames given to one VADProcessor
MaxBadChunks == 1   \* chunks of the wrong size given to one VADProcessor
MaxCalls == 3       \* convert_and_buffer calls on one AudioStreamConverter
MaxTextLen == 11    \* characters of a repeated-character recognizer result
MaxGets == 2        \* get_job calls for one job
MaxTriggers == 2    \* check_and_trigger_room_summary calls for one room

\* --------------------------------------------------------------- constants
JobIds == 1..MaxReqs
Texts == {<<"a">>, <<"b">>}
Summaries == {"S1", "S2"}
None == "None"
NoneText == <<"None">>
EmptyStr == <<>>
Statuses == {"PENDING", "PROCESSING", "TRANSCRIBED", "COMPLETED", "FAILED"}
WarnNoResult == <<"STT-no-result">>
WarnNoSpeech == <<"no-speech">>
ErrText == <<"error">>
Rooms == {"r1"}
Members == {"m1"}
Sentinel == 0       \* the None put on processing_queue to stop the worker
VAD_SAMPLE_RATE == 16000
VAD_FRAME_DURATION_MS == 30
VAD_MIN_SPEECH_FRAMES == 3
VAD_MAX_SILENCE_FRAMES == 10

VARIABLES
    scn,          \* scenario of this behaviour: "batch", "live", "room", "ready"
    faults,       \* storage failures still allowed to happen
    db,           \* T_STT_JOB rows, by job id
    segments,     \* T_STT_SEGMENT rows, by job id, in insertion order
    appended,     \* history: the segment number behind each inserted row
    errorLogs,    \* T_STT_ERROR_LOG rows (service_name), by job id
    cache,        \* Redis mirror job:med:<id>
    published,    \* every message published on job_events:<id>
    bt,           \* the batch upload, its Celery task and pipeline locals
    sse,          \* one SSE subscriber (stream_events)
    rooms,        \* T_STT_ROOM rows
    req,          \* create_stream_job requests
    active_jobs,  \* core.config.active_jobs (keys)
    sock,         \* conversation_stream handlers, by job id
    pl,           \* StreamPipeline + StreamingJob fields, by job id
    fin,          \* finalize() calls and their returned terminal event
    emitted,      \* events yielded by process_audio_chunk, by job id
    is_ready,     \* answers of is_room_ready_for_summary, by room
    vad,          \* a VADProcessor, the frames it was given, its segments
    conv,         \* an AudioStreamConverter and the frames it returned
    stt,          \* a recognizer result and what transcribe_segment_from_bytes returns
    total_summary, \* T_STT_ROOM.total_summary, by room
    room_task,    \* generate_room_summary_task runs: summarizer input, return value
    got           \* what successive JobManager.get_job calls returned, by job id

batchVars == <<bt>>
liveVars == <<rooms, req, active_jobs, sock, pl, fin, emitted>>
vars == <<scn, faults, db, segments, appended, errorLogs, cache, published, bt, sse,
          rooms, req, active_jobs, sock, pl, fin, emitted, is_ready, vad, conv,
          stt, total_summary, room_task, got>>

\* ----------------------------------------------------------------- helpers
RECURSIVE Join(_)
\* str.join with a single space (batch_pipeline.py:123, streaming_job.py:128)
Join(ss) ==
    IF ss = <<>> THEN <<>>
    ELSE IF Len(ss) = 1 THEN ss[1]
    ELSE ss[1] \o <<" ">> \o Join(Tail(ss))

\* str.lower() / str.upper() on status values
Lower(s) ==
    CASE s = "PENDING" -> "pending"
      [] s = "PROCESSING" -> "processing"
      [] s = "TRANSCRIBED" -> "transcribed"
      [] s = "COMPLETED" -> "completed"
      [] s = "FAILED" -> "failed"
      [] OTHER -> s

Upper(s) ==
    CASE s = "pending" -> "PENDING"
      [] s = "processing" -> "PROCESSING"
      [] s = "transcribed" -> "TRANSCRIBED"
      [] s = "completed" -> "COMPLETED"
      [] s = "failed" -> "FAILED"
      [] OTHER -> s

NoRow == [present |-> FALSE, kind |-> None, status |-> None,
          transcript |-> NoneText, summary |-> None, error |-> NoneText,
          room |-> None, member |-> None]

NoCache == [present |-> FALSE, status |-> None, transcript |-> NoneText,
            summary |-> None, error |-> NoneText]

\* DatabaseService.create_stt_job: a new row with status PENDING
NewRow(kind, room, member) ==
    [present |-> TRUE, kind |-> kind, status |-> "PENDING",
     transcript |-> NoneText, summary |-> None, error |-> NoneText,
     room |-> room, member |-> member]

\* cache_service.create_job: the initial mirror, status in lower case
NewCache ==
    [present |-> TRUE, status |-> "pending", transcript |-> NoneText,
     summary |-> None, error |-> NoneText]

\* Python truthiness of the optional arguments of update_status
TruthyText(t) == t # NoneText /\ t # EmptyStr
TruthySummary(s) == s # None

\* DatabaseService.update_stt_job_status: status always, the other columns
\* only when the argument is truthy
DbUpdated(row, st, tr, su, er) ==
    [row EXCEPT !.status = st,
                !.transcript = IF TruthyText(tr) THEN tr ELSE @,
                !.summary = IF TruthySummary(su) THEN su ELSE @,
                !.error = IF TruthyText(er) THEN er ELSE @]

\* cache_service.update_job as called by JobManager.update_status: merges
\* into an existing entry; a missing entry makes it raise, which the
\* manager swallows
CacheUpdated(c, st, tr, su, er) ==
    IF ~c.present THEN c
    ELSE [c EXCEPT !.status = Lower(st),
                   !.transcript = IF TruthyText(tr) THEN tr ELSE @,
                   !.summary = IF TruthySummary(su) THEN su ELSE @,
                   !.error = IF TruthyText(er) THEN er ELSE @]

\* JobManager.update_status succeeds: durable row and mirror both written
UpdateStatusOk(j, st, tr, su, er) ==
    /\ db' = [db EXCEPT ![j] = DbUpdated(@, st, tr, su, er)]
    /\ cache' = [cache EXCEPT ![j] = CacheUpdated(@, st, tr, su, er)]

\* a storage operation fails (the transaction rolls back)
CanFail == faults > 0
Fail == faults' = faults - 1

Event(type, text, n, status, summary, hist) ==
    [type |-> type, text |-> text, n |-> n, status |-> status,
     summary |-> summary, hist |-> hist]

\* cache_service.publish_message: Redis delivers to current subscribers only
Publish(j, ev) ==
    /\ published' = [published EXCEPT ![j] = Append(@, ev)]
    /\ sse' = IF sse.subscribed /\ sse.job = j
              THEN [sse EXCEPT !.inbox = Append(@, ev)]
              ELSE sse

\* DatabaseService.log_error / JobManager.log_error
LogError(j, stage) == errorLogs' = [errorLogs EXCEPT ![j] = Append(@, stage)]

\* ------------------------------------------------------------------- Init
BtInit == [pc |-> "none", job |-> 0, cur |-> EmptyStr, nxt |-> EmptyStr,
           count |-> 0, ts |-> <<>>, full |-> EmptyStr, sum |-> None,
           file |-> FALSE, ret |-> None, yields |-> 0, delivered |-> 0,
           before |-> NoRow, beforeSegs |-> <<>>]

SseInit == [pc |-> "idle", job |-> 0, status |-> None, summary |-> None,
            received |-> <<>>, subscribed |-> FALSE, inbox |-> <<>>,
            mark |-> 0, seen |-> None, sub |-> 0, gone |-> FALSE]

ReqInit == [pc |-> "none", room |-> None, member |-> None, job |-> 0,
            existing |-> 0]

\* sendfail: a send_json of the receive loop has failed
SockInit == [pc |-> "none", connected |-> FALSE, chunks |-> 0, sendfail |-> FALSE]

PlInit == [pc |-> "none", segment_count |-> 0, pending |-> 0, pq |-> <<>>,
           rq |-> <<>>, worker |-> "none", wseg |-> 0, is_running |-> FALSE,
           full_transcript |-> <<>>]

FinInit == [calls |-> 0, result |-> None, total |-> 0, cause |-> None,
            before |-> NoRow, beforeSegs |-> <<>>, deadline |-> FALSE,
            inflight |-> {}]

NotAsked == [called |-> FALSE, value |-> FALSE]

\* the room aggregation task has not run; checks counts the calls of
\* check_and_trigger_room_summary for the room and scheduled the
\* generate_room_summary_task.delay() calls they made; retries is
\* self.request.retries of the queued task and runs the executions so far
TaskInit == [status |-> None, transcripts |-> <<>>, combined_text |-> <<>>,
             summary |-> None, checks |-> 0, scheduled |-> 0, retries |-> 0,
             runs |-> 0]

\* no recognizer result yet
SttInit == [result_text |-> <<>>, returned |-> <<>>, done |-> FALSE]

\* AudioStreamConverter.__init__: target_frame_bytes
target_frame_bytes == (VAD_SAMPLE_RATE * VAD_FRAME_DURATION_MS * 2) \div 1000

\* AudioStreamConverter.__init__: empty buffer; sizes is the number of PCM
\* bytes each call decoded, frames every frame returned so far
ConvInit == [buffer |-> <<>>, total_output_frames |-> 0, frames |-> <<>>,
             sizes |-> <<>>, decoded |-> 0]

\* VADProcessor.__init__: empty buffer, not in speech, counters 0; frames
\* is the is_speech verdict of every frame given so far, out the segments
\* returned (each a sequence of frame numbers), bad the calls made with a
\* chunk of another size and raised the AudioFormatError they ended with
VadInit == [speech_buffer |-> <<>>, in_speech |-> FALSE, silence_frames |-> 0,
            speech_frames |-> 0, frames |-> <<>>, out |-> <<>>, flushed |-> FALSE,
            bad |-> 0, raised |-> 0]

\* everything but the scenario, the fault budget and the job rows
InitRest ==
    /\ segments = [j \in JobIds |-> <<>>]
    /\ appended = [j \in JobIds |-> <<>>]
    /\ errorLogs = [j \in JobIds |-> <<>>]
    /\ cache = [j \in JobIds |-> NoCache]
    /\ published = [j \in JobIds |-> <<>>]
    /\ bt = BtInit
    /\ sse = SseInit
    /\ rooms = {}
    /\ req = [q \in 1..MaxReqs |-> ReqInit]
    /\ active_jobs = {}
    /\ sock = [j \in JobIds |-> SockInit]
    /\ pl = [j \in JobIds |-> PlInit]
    /\ fin = [j \in JobIds |-> FinInit]
    /\ emitted = [j \in JobIds |-> <<>>]
    /\ is_ready = [r \in Rooms |-> NotAsked]
    /\ vad = VadInit
    /\ conv = ConvInit
    /\ stt = SttInit
    /\ total_summary = [r \in Rooms |-> None]
    /\ room_task = [r \in Rooms |-> TaskInit]
    /\ got = [j \in JobIds |-> <<>>]

Init ==
    /\ scn \in {"batch", "live", "room"}
    /\ faults \in 0..MaxFaults
    /\ db = [j \in JobIds |-> NoRow]
    /\ InitRest

\* ------------------------------------------------------- upload (batch)
\* create_conversation_request, steps 1-2: save the file, create the job
UploadCreate ==
    /\ scn = "batch" /\ bt.pc = "none"
    /\ db' = [db EXCEPT ![1] = NewRow("BATCH", None, None)]
    /\ cache' = [cache EXCEPT ![1] = NewCache]
    /\ bt' = [bt EXCEPT !.pc = "created", !.job = 1, !.file = TRUE]
    /\ UNCHANGED <<scn, got, total_summary, room_task, is_ready, vad, conv, stt, faults, segments, appended, errorLogs, published, sse, liveVars>>

\* create_conversation_request, step 3: .delay() returns
UploadEnqueueOk ==
    /\ bt.pc = "created"
    /\ bt' = [bt EXCEPT !.pc = "queued"]
    /\ UNCHANGED <<scn, got, total_summary, room_task, is_ready, vad, conv, stt, faults, db, segments, appended, errorLogs, cache, published, sse, liveVars>>

\* create_conversation_request, step 3: .delay() raises
UploadEnqueueFail ==
    /\ bt.pc = "created"
    /\ UpdateStatusOk(bt.job, "COMPLETED", NoneText, None, ErrText)
    /\ LogError(bt.job, "celery_task")
    /\ bt' = [bt EXCEPT !.pc = "rejected"]
    /\ UNCHANGED <<scn, got, total_summary, room_task, is_ready, vad, conv, stt, faults, segments, appended, published, sse, liveVars>>

\* --------------------------------------------------- run_batch_pipeline
\* step 1: update_status(PROCESSING)
BatchStart ==
    /\ bt.pc = "queued"
    /\ \/ /\ UpdateStatusOk(bt.job, "PROCESSING", NoneText, None, NoneText)
          /\ bt' = [bt EXCEPT !.pc = "first"]
          /\ UNCHANGED faults
       \/ /\ CanFail /\ Fail
          /\ bt' = [bt EXCEPT !.pc = "except"]
          /\ UNCHANGED <<db, cache>>
    /\ UNCHANGED <<scn, got, total_summary, room_task, is_ready, vad, conv, stt, segments, appended, errorLogs, published, sse, liveVars>>

\* first next(stt_generator): a segment, StopIteration, or an error; the
\* recognizer can only raise when the audio file is no longer there
BatchFirst ==
    /\ bt.pc = "first"
    /\ \/ /\ bt.file
          /\ \E t \in Texts :
               bt' = [bt EXCEPT !.pc = "look", !.cur = t, !.count = 1, !.yields = 1]
       \/ /\ bt.file
          /\ bt' = [bt EXCEPT !.pc = "join"]
       \/ bt' = [bt EXCEPT !.pc = "stt_err"]
    /\ UNCHANGED <<scn, got, total_summary, room_task, is_ready, vad, conv, stt, faults, db, segments, appended, errorLogs, cache, published, sse, liveVars>>

\* look-ahead next(stt_generator) inside the loop
BatchLookAhead ==
    /\ bt.pc = "look"
    /\ \/ /\ bt.yields < MaxSegs
          /\ \E t \in Texts :
               bt' = [bt EXCEPT !.pc = "save_mid", !.nxt = t,
                                !.ts = Append(@, bt.cur), !.yields = @ + 1]
       \/ bt' = [bt EXCEPT !.pc = "save_last", !.ts = Append(@, bt.cur)]
       \/ bt' = [bt EXCEPT !.pc = "stt_err"]
    /\ UNCHANGED <<scn, got, total_summary, room_task, is_ready, vad, conv, stt, faults, db, segments, appended, errorLogs, cache, published, sse, liveVars>>

\* JobManager.save_segment: the row is appended, or the insert fails and
\* the failure is swallowed (returns False)
SaveSegment(j, text, n) ==
    \/ /\ segments' = [segments EXCEPT ![j] = Append(@, text)]
       /\ appended' = [appended EXCEPT ![j] = Append(@, n)]
       /\ UNCHANGED faults
    \/ /\ CanFail /\ Fail
       /\ UNCHANGED <<segments, appended>>

BatchSave ==
    /\ bt.pc \in {"save_mid", "save_last"}
    /\ SaveSegment(bt.job, bt.cur, bt.count)
    /\ bt' = [bt EXCEPT !.pc = IF bt.pc = "save_mid" THEN "pub_mid" ELSE "pub_last"]
    /\ UNCHANGED <<scn, got, total_summary, room_task, is_ready, vad, conv, stt, db, errorLogs, cache, published, sse, liveVars>>

\* every segment event carrying TRANSCRIBED
segment_status_always_transcribed(pc) == "TRANSCRIBED"

\* the status field of a transcript_segment event: PROCESSING when the
\* look-ahead found another segment, TRANSCRIBED on StopIteration
segment_status(pc) == IF pc = "pub_mid" THEN "PROCESSING" ELSE "TRANSCRIBED"

\* publish_event(transcript_segment) for a non-last / the last segment
BatchPublishSegment ==
    /\ bt.pc \in {"pub_mid", "pub_last"}
    /\ Publish(bt.job, Event("transcript_segment", bt.cur, bt.count,
                segment_status(bt.pc), None, FALSE))
    /\ bt' = IF bt.pc = "pub_mid"
             THEN [bt EXCEPT !.pc = "look", !.cur = bt.nxt, !.count = @ + 1]
             ELSE [bt EXCEPT !.pc = "join"]
    /\ UNCHANGED <<scn, got, total_summary, room_task, is_ready, vad, conv, stt, faults, db, segments, appended, errorLogs, cache, liveVars>>

\* the recognizer raised: log_error("batch_stt") and re-raise
BatchSttError ==
    /\ bt.pc = "stt_err"
    /\ LogError(bt.job, "batch_stt")
    /\ bt' = [bt EXCEPT !.pc = "except"]
    /\ UNCHANGED <<scn, got, total_summary, room_task, is_ready, vad, conv, stt, faults, db, segments, appended, cache, published, sse, liveVars>>

\* step 3: join the transcript; empty -> update_status and return,
\* otherwise update_status(TRANSCRIBED, transcript)
BatchTranscribed ==
    /\ bt.pc = "join"
    /\ LET full == Join(bt.ts) IN
       \/ /\ full = EmptyStr
          /\ UpdateStatusOk(bt.job, "COMPLETED", EmptyStr, None, WarnNoResult)
          /\ bt' = [bt EXCEPT !.pc = "finally", !.ret = "completed"]
          /\ UNCHANGED faults
       \/ /\ full # EmptyStr
          /\ UpdateStatusOk(bt.job, "TRANSCRIBED", full, None, NoneText)
          /\ bt' = [bt EXCEPT !.pc = "summ", !.full = full]
          /\ UNCHANGED faults
       \/ /\ CanFail /\ Fail
          /\ bt' = [bt EXCEPT !.pc = "except", !.full = full]
          /\ UNCHANGED <<db, cache>>
    /\ UNCHANGED <<scn, got, total_summary, room_task, is_ready, vad, conv, stt, segments, appended, errorLogs, published, sse, liveVars>>

\* step 4: llm_service.get_summary returns, or raises (logged, return)
BatchSummarize ==
    /\ bt.pc = "summ"
    /\ \/ /\ \E s \in Summaries : bt' = [bt EXCEPT !.pc = "pub_final", !.sum = s]
          /\ UNCHANGED errorLogs
       \/ /\ LogError(bt.job, "batch_summary")
          /\ bt' = [bt EXCEPT !.pc = "finally", !.ret = "transcribed"]
    /\ UNCHANGED <<scn, got, total_summary, room_task, is_ready, vad, conv, stt, faults, db, segments, appended, cache, published, sse, liveVars>>

\* step 5: publish_event(final_summary)
BatchPublishFinal ==
    /\ bt.pc = "pub_final"
    /\ Publish(bt.job, Event("final_summary", EmptyStr, bt.count, "COMPLETED",
                             bt.sum, FALSE))
    /\ bt' = [bt EXCEPT !.pc = "upd_final"]
    /\ UNCHANGED <<scn, got, total_summary, room_task, is_ready, vad, conv, stt, faults, db, segments, appended, errorLogs, cache, liveVars>>

\* step 6: update_status(COMPLETED, summary)
BatchCompleted ==
    /\ bt.pc = "upd_final"
    /\ \/ /\ UpdateStatusOk(bt.job, "COMPLETED", NoneText, bt.sum, NoneText)
          /\ bt' = [bt EXCEPT !.pc = "finally", !.ret = "completed"]
          /\ UNCHANGED faults
       \/ /\ CanFail /\ Fail
          /\ bt' = [bt EXCEPT !.pc = "except"]
          /\ UNCHANGED <<db, cache>>
    /\ UNCHANGED <<scn, got, total_summary, room_task, is_ready, vad, conv, stt, segments, appended, errorLogs, published, sse, liveVars>>

\* step 7, the outer except: log_error("batch_pipeline") and update_status;
\* when that update raises too, the exception leaves the pipeline
BatchExcept ==
    /\ bt.pc = "except"
    /\ LogError(bt.job, "batch_pipeline")
    /\ \/ /\ UpdateStatusOk(bt.job, "COMPLETED", NoneText, None, ErrText)
          /\ bt' = [bt EXCEPT !.pc = "finally", !.ret = "failed"]
          /\ UNCHANGED faults
       \/ /\ CanFail /\ Fail
          /\ bt' = [bt EXCEPT !.pc = "finally", !.ret = "raised"]
          /\ UNCHANGED <<db, cache>>
    /\ UNCHANGED <<scn, got, total_summary, room_task, is_ready, vad, conv, stt, segments, appended, published, sse, liveVars>>

\* a cleanup that runs only when the pipeline returns a result
remove_temp_file_on_return(b) == IF b.ret = "raised" THEN b.file ELSE FALSE

\* if os.path.exists(audio_file_path): os.remove(audio_file_path); the
\* value is whether the file exists afterwards
remove_temp_file(b) == FALSE

\* step 8, finally: remove the temporary audio file
BatchFinally ==
    /\ bt.pc = "finally"
    /\ bt' = [bt EXCEPT !.file = remove_temp_file(bt),
                        !.pc = IF bt.ret = "raised" THEN "task_err" ELSE "done"]
    /\ UNCHANGED <<scn, got, total_summary, room_task, is_ready, vad, conv, stt, faults, db, segments, appended, errorLogs, cache, published, sse, liveVars>>

\* run_stt_and_summary_pipeline, except branch: _handle_error() logs
\* "celery_asyncio" and updates the status; its own failure is swallowed
TaskHandleError ==
    /\ bt.pc = "task_err"
    /\ LogError(bt.job, "celery_asyncio")
    /\ \/ /\ UpdateStatusOk(bt.job, "COMPLETED", NoneText, None, ErrText)
          /\ UNCHANGED faults
       \/ /\ CanFail /\ Fail
          /\ UNCHANGED <<db, cache>>
    /\ bt' = [bt EXCEPT !.pc = "done", !.ret = "failed"]
    /\ UNCHANGED <<scn, got, total_summary, room_task, is_ready, vad, conv, stt, segments, appended, published, sse, liveVars>>

BatchNext ==
    \/ UploadCreate \/ UploadEnqueueOk \/ UploadEnqueueFail
    \/ BatchStart \/ BatchFirst \/ BatchLookAhead \/ BatchSave
    \/ BatchPublishSegment \/ BatchSttError \/ BatchTranscribed
    \/ BatchSummarize \/ BatchPublishFinal \/ BatchCompleted
    \/ BatchExcept \/ BatchFinally \/ TaskHandleError

\* ------------------------------------------------------------ stream_events
\* JobManager.get_job as the handlers use it: the mirror first, the durable
\* row on a miss (the status keeps the letter case of where it came from)
GetJob(j) ==
    IF cache[j].present
    THEN [status |-> cache[j].status, summary |-> cache[j].summary]
    ELSE [status |-> db[j].status, summary |-> db[j].summary]

\* stream_events, the 404 check: get_job() and the status captured there
SseGetJob ==
    /\ sse.pc = "idle" /\ scn # "room"
    /\ \E j \in JobIds :
         /\ db[j].present
         /\ sse' = [sse EXCEPT !.pc = "backfill", !.job = j,
                               !.status = GetJob(j).status,
                               !.summary = GetJob(j).summary,
                               !.seen = db[j].status]
    /\ UNCHANGED <<scn, got, total_summary, room_task, is_ready, vad, conv, stt, faults, db, segments, appended, errorLogs, cache, published, bt, liveVars>>

\* the rows of get_segments() as historical events: the row has no
\* segment_number column, so segment.get("segment_number", 0) is 0
HistoricalEvents(rows, st) ==
    [i \in 1..Len(rows) |->
        Event("transcript_segment", rows[i], 0, st, None, TRUE)]

\* the SSE client goes away; the handler notices at its next
\* request.is_disconnected()
SseClientDisconnect ==
    /\ sse.pc \in {"backfill", "status", "listening"} /\ ~sse.gone
    /\ sse' = [sse EXCEPT !.gone = TRUE]
    /\ UNCHANGED <<scn, got, total_summary, room_task, is_ready, vad, conv, stt, faults, db, segments, appended, errorLogs, cache, published, bt, liveVars>>

\* event_generator STEP 1: read the stored segments and send them; the loop
\* returns at its first segment when the client is gone
SseBackfill ==
    /\ sse.pc = "backfill"
    /\ sse' = IF sse.gone /\ segments[sse.job] # <<>>
              THEN [sse EXCEPT !.pc = "closed", !.mark = Len(published[sse.job])]
              ELSE [sse EXCEPT !.pc = "status",
                     !.received = HistoricalEvents(segments[sse.job], sse.status),
                     !.mark = Len(published[sse.job])]
    /\ UNCHANGED <<scn, got, total_summary, room_task, is_ready, vad, conv, stt, faults, db, segments, appended, errorLogs, cache, published, bt, liveVars>>

\* event_generator STEP 2/3: a job seen COMPLETED gets a synthesized
\* final_summary and the stream ends; otherwise subscribe to the channel
AlreadyCompletedAsStored(st) == st = "COMPLETED"

\* current_status = job.get("status", "").upper(); == "COMPLETED"
AlreadyCompleted(st) == Upper(st) = "COMPLETED"

SseFinishOrSubscribe ==
    /\ sse.pc = "status"
    /\ sse' = IF AlreadyCompleted(sse.status)
              THEN [sse EXCEPT !.pc = "closed",
                        !.received = Append(@, Event("final_summary", EmptyStr,
                            Len(sse.received), "COMPLETED", sse.summary, TRUE))]
              ELSE [sse EXCEPT !.pc = "listening", !.subscribed = TRUE,
                               !.sub = Len(published[sse.job])]
    /\ UNCHANGED <<scn, got, total_summary, room_task, is_ready, vad, conv, stt, faults, db, segments, appended, errorLogs, cache, published, bt, liveVars>>

\* event_generator STEP 3: a message arrives; the loop breaks when the
\* client is gone, otherwise forwards it; final_summary ends the stream
SseReceive ==
    /\ sse.pc = "listening" /\ sse.inbox # <<>>
    /\ LET m == Head(sse.inbox) IN
       sse' = IF sse.gone
              THEN [sse EXCEPT !.inbox = Tail(@), !.pc = "closed",
                               !.subscribed = FALSE]
              ELSE [sse EXCEPT !.inbox = Tail(@),
                          !.received = Append(@, m),
                          !.pc = IF m.type = "final_summary" THEN "closed" ELSE @,
                          !.subscribed = IF m.type = "final_summary" THEN FALSE ELSE @]
    /\ UNCHANGED <<scn, got, total_summary, room_task, is_ready, vad, conv, stt, faults, db, segments, appended, errorLogs, cache, published, bt, liveVars>>

SseNext ==
    \/ SseGetJob \/ SseClientDisconnect \/ SseBackfill
    \/ SseFinishOrSubscribe \/ SseReceive

\* -------------------------------------------------------- create_stream_job
ReqsOf(sc) == IF sc = "room" THEN 1..MaxReqs ELSE IF sc = "live" THEN {1} ELSE {}
ChunksOf(sc) == IF sc = "live" THEN MaxChunks ELSE 0

\* uuid.uuid4() of StreamingJob.__init__: an id no request has used
FreshId == 1 + Cardinality({q \in 1..MaxReqs : req[q].job # 0})

\* the request arrives; in conference mode get_or_create_room runs first
ReqStart(q) ==
    /\ q \in ReqsOf(scn) /\ req[q].pc = "none"
    /\ \/ /\ scn = "live"
          /\ req' = [req EXCEPT ![q].pc = "create"]
          /\ UNCHANGED rooms
       \/ /\ scn \in {"live", "room"}
          /\ \E r \in Rooms, m \in Members :
               /\ req' = [req EXCEPT ![q].pc = "check", ![q].room = r,
                                     ![q].member = m]
               /\ rooms' = rooms \cup {r}
    /\ UNCHANGED <<scn, got, total_summary, room_task, is_ready, vad, conv, stt, faults, db, segments, appended, errorLogs, cache, published, bt,
                   sse, active_jobs, sock, pl, fin, emitted>>

\* DatabaseService.check_member_exists: the most recently created job of
\* (room, member), or 0 when there is none (order_by reg_dttm desc, limit 1)
check_member_exists(r, m) ==
    LET same == {j \in JobIds : db[j].present /\ db[j].room = r /\ db[j].member = m}
    IN IF same = {} THEN 0
       ELSE CHOOSE j \in same : \A k \in same : k <= j

\* the duplicate-member check: 409 when the job found is PENDING/PROCESSING;
\* JobManager.check_member_exists answers None when the query fails, and
\* the request goes on
ReqCheck(q) ==
    /\ req[q].pc = "check"
    /\ \/ /\ LET e == check_member_exists(req[q].room, req[q].member) IN
             req' = IF e # 0 /\ Upper(db[e].status) \in {"PENDING", "PROCESSING"}
                    THEN [req EXCEPT ![q].pc = "conflict", ![q].existing = e]
                    ELSE [req EXCEPT ![q].pc = "create"]
          /\ UNCHANGED faults
       \/ /\ CanFail /\ Fail
          /\ req' = [req EXCEPT ![q].pc = "create"]
    /\ UNCHANGED <<scn, got, total_summary, room_task, is_ready, vad, conv, stt, db, segments, appended, errorLogs, cache, published, bt,
                   sse, rooms, active_jobs, sock, pl, fin, emitted>>

\* StreamingJob(), active_jobs[job_id] = job, create_job / create_job_with_room;
\* a failed insert removes the entry again and answers 500
ReqCreate(q) ==
    /\ req[q].pc = "create"
    /\ LET j == FreshId IN
       \/ /\ db' = [db EXCEPT ![j] = NewRow("REALTIME", req[q].room, req[q].member)]
          /\ cache' = [cache EXCEPT ![j] = NewCache]
          /\ active_jobs' = active_jobs \cup {j}
          /\ req' = [req EXCEPT ![q].pc = "created", ![q].job = j]
          /\ UNCHANGED faults
       \/ /\ CanFail /\ Fail
          /\ req' = [req EXCEPT ![q].pc = "error", ![q].job = j]
          /\ UNCHANGED <<db, cache, active_jobs>>
    /\ UNCHANGED <<scn, got, total_summary, room_task, is_ready, vad, conv, stt, segments, appended, errorLogs, published, bt, sse, rooms, sock,
                   pl, fin, emitted>>

\* -------------------------------------------------------- conversation_stream
\* the socket is accepted for a job of active_jobs: update_status(PROCESSING),
\* AudioStreamConverter(...), StreamPipeline(job) and start(); a converter
\* that cannot be built sends an error and returns
SockAccept(j) ==
    /\ j \in active_jobs /\ sock[j].pc = "none"
    /\ \/ /\ UpdateStatusOk(j, "PROCESSING", NoneText, None, NoneText)
          /\ \/ /\ sock' = [sock EXCEPT ![j].pc = "receiving", ![j].connected = TRUE]
                /\ pl' = [pl EXCEPT ![j].pc = "running", ![j].worker = "waiting",
                                    ![j].is_running = TRUE]
             \/ /\ sock' = [sock EXCEPT ![j].pc = "ended"]
                /\ UNCHANGED pl
          /\ UNCHANGED faults
       \/ /\ CanFail /\ Fail
          /\ sock' = [sock EXCEPT ![j].pc = "ended"]
          /\ UNCHANGED <<db, cache, pl>>
    /\ UNCHANGED <<scn, got, total_summary, room_task, is_ready, vad, conv, stt, segments, appended, errorLogs, published, bt, sse, rooms, req,
                   active_jobs, fin, emitted>>

\* the client closes the connection
ClientDisconnect(j) ==
    /\ sock[j].pc \in {"receiving", "draining"} /\ sock[j].connected
    /\ sock' = [sock EXCEPT ![j].connected = FALSE]
    /\ UNCHANGED <<scn, got, total_summary, room_task, is_ready, vad, conv, stt, faults, db, segments, appended, errorLogs, cache, published, bt,
                   sse, rooms, req, active_jobs, pl, fin, emitted>>

\* asyncio.Queue.put on processing_queue / result_queue: first in, first out
QueuePutFront(q, x) == <<x>> \o q

QueuePut(q, x) == Append(q, x)

\* receive_bytes() returns a packet; StreamPipeline.process_audio_chunk,
\* first half: the segmenter returns a segment or nothing, a segment gets
\* the next number and is queued for recognition
SockReceive(j) ==
    /\ sock[j].pc = "receiving" /\ sock[j].connected
    /\ sock[j].chunks < ChunksOf(scn)
    /\ \/ /\ pl[j].segment_count < MaxSegs
          /\ pl' = [pl EXCEPT ![j].segment_count = @ + 1,
                              ![j].pending = @ + 1,
                              ![j].pq = QueuePut(@, pl[j].segment_count + 1)]
       \/ UNCHANGED pl
    /\ sock' = [sock EXCEPT ![j].pc = "draining", ![j].chunks = @ + 1]
    /\ UNCHANGED <<scn, got, total_summary, room_task, is_ready, vad, conv, stt, faults, db, segments, appended, errorLogs, cache, published, bt,
                   sse, rooms, req, active_jobs, fin, emitted>>

\* one result taken from result_queue by process_audio_chunk: an error
\* result is yielded as an error event; a non-empty text is appended to the
\* transcript, stored and yielded; an empty text is dropped
DrainResult(j) ==
    LET r == Head(pl[j].rq) IN
    /\ pl' = [pl EXCEPT ![j].rq = Tail(@),
                        ![j].full_transcript =
                            IF ~r.err /\ r.text # EmptyStr THEN Append(@, r.text) ELSE @]
    /\ IF r.err
       THEN /\ emitted' = [emitted EXCEPT ![j] =
                   Append(@, Event("error", ErrText, r.n, None, None, FALSE))]
            /\ UNCHANGED <<segments, appended, faults>>
       ELSE IF r.text # EmptyStr
       THEN /\ SaveSegment(j, r.text, r.n)
            /\ emitted' = [emitted EXCEPT ![j] =
                   Append(@, Event("transcript_segment", r.text, r.n, None, None, FALSE))]
       ELSE UNCHANGED <<segments, appended, faults, emitted>>

Yields(r) == r.err \/ r.text # EmptyStr

\* process_audio_chunk, second half, with the send_json of the handler: a
\* failed send raises WebSocketDisconnect inside the handler's inner try,
\* whose "except Exception" logs it as a conversion error and continues
\* with the next receive_bytes()
SockDrain(j) ==
    /\ sock[j].pc = "draining"
    /\ IF pl[j].rq = <<>>
       THEN /\ sock' = [sock EXCEPT ![j].pc = "receiving"]
            /\ UNCHANGED <<pl, segments, appended, faults, emitted>>
       ELSE /\ DrainResult(j)
            /\ sock' = IF Yields(Head(pl[j].rq)) /\ ~sock[j].connected
                       THEN [sock EXCEPT ![j].pc = "receiving",
                                         ![j].sendfail = TRUE]
                       ELSE sock
    /\ UNCHANGED <<scn, got, total_summary, room_task, is_ready, vad, conv, stt, db, errorLogs, cache, published, bt, sse, rooms, req,
                   active_jobs, fin>>

\* segment numbers waiting in processing_queue or being recognized
InRecognition(j) ==
    ({pl[j].pq[i] : i \in 1..Len(pl[j].pq)} \ {Sentinel})
    \cup (IF pl[j].worker = "busy" THEN {pl[j].wseg} ELSE {})

\* finalize() is entered
EnterFinalize(j) ==
    /\ pl' = [pl EXCEPT ![j].pc = "f_flush"]
    /\ fin' = [fin EXCEPT ![j].calls = @ + 1, ![j].before = db[j],
                          ![j].beforeSegs = segments[j],
                          ![j].inflight = InRecognition(j)]

\* receive_bytes() raises WebSocketDisconnect: audio_converter.flush(); a
\* non-empty tail goes through process_audio_chunk once more (results are
\* consumed, nothing is sent), then finalize() is called
SockOnDisconnect(j) ==
    /\ sock[j].pc = "receiving" /\ ~sock[j].connected
    /\ \/ /\ sock' = [sock EXCEPT ![j].pc = "flush_drain"]
          /\ UNCHANGED <<pl, fin>>
       \/ /\ sock' = [sock EXCEPT ![j].pc = "finalizing"]
          /\ EnterFinalize(j)
    /\ UNCHANGED <<scn, got, total_summary, room_task, is_ready, vad, conv, stt, faults, db, segments, appended, errorLogs, cache, published, bt,
                   sse, rooms, req, active_jobs, emitted>>

SockFlushDrain(j) ==
    /\ sock[j].pc = "flush_drain"
    /\ IF pl[j].rq = <<>>
       THEN /\ sock' = [sock EXCEPT ![j].pc = "finalizing"]
            /\ EnterFinalize(j)
            /\ UNCHANGED <<segments, appended, faults, emitted>>
       ELSE /\ DrainResult(j)
            /\ UNCHANGED <<sock, fin>>
    /\ UNCHANGED <<scn, got, total_summary, room_task, is_ready, vad, conv, stt, db, errorLogs, cache, published, bt, sse, rooms, req,
                   active_jobs>>

\* receive loop ends with an unexpected exception: log_error("websocket"),
\* update_status, and the finally block removes the job from active_jobs.
\* After a failed send the socket library has either kept the disconnect
\* message for the next receive_bytes() (WebSocketDisconnect, see
\* SockOnDisconnect) or marked the connection closed, and receive_bytes()
\* raises RuntimeError, which arrives here
SockUnexpected(j) ==
    /\ sock[j].pc = "receiving"
    /\ sock[j].connected \/ sock[j].sendfail
    /\ LogError(j, "websocket")
    /\ UpdateStatusOk(j, "COMPLETED", NoneText, None, ErrText)
    /\ active_jobs' = active_jobs \ {j}
    /\ sock' = [sock EXCEPT ![j].pc = "ended"]
    /\ UNCHANGED <<scn, got, total_summary, room_task, is_ready, vad, conv, stt, faults, segments, appended, published, bt, sse, rooms, req, pl,
                   fin, emitted>>

\* finalize() returned: statistics are logged, finally removes the entry
SockFinish(j) ==
    /\ sock[j].pc = "finalizing" /\ pl[j].pc = "returned"
    /\ active_jobs' = active_jobs \ {j}
    /\ sock' = [sock EXCEPT ![j].pc = "ended"]
    /\ UNCHANGED <<scn, got, total_summary, room_task, is_ready, vad, conv, stt, faults, db, segments, appended, errorLogs, cache, published, bt,
                   sse, rooms, req, pl, fin, emitted>>

\* ------------------------------------------------ StreamPipeline._stt_worker
\* processing_queue.get() returns: the sentinel ends the worker, a segment
\* goes to the recognizer; the worker coroutine does not run between the
\* entry of finalize() and its first await
WorkerTake(j) ==
    /\ pl[j].worker = "waiting" /\ pl[j].pq # <<>>
    /\ pl[j].pc # "f_flush"
    /\ pl' = IF Head(pl[j].pq) = Sentinel
             THEN [pl EXCEPT ![j].pq = Tail(@), ![j].worker = "exited"]
             ELSE [pl EXCEPT ![j].pq = Tail(@), ![j].worker = "busy",
                             ![j].wseg = Head(pl[j].pq)]
    /\ UNCHANGED <<scn, got, total_summary, room_task, is_ready, vad, conv, stt, faults, db, segments, appended, errorLogs, cache, published, bt,
                   sse, rooms, req, active_jobs, sock, fin, emitted>>

\* the worker leaving its loop after any result
AfterWorkLeaves(j) == "exited"

\* the loop condition "while self.is_running" after a result was queued
AfterWork(j) == IF pl[j].is_running THEN "waiting" ELSE "exited"

\* the recognizer returns a text (possibly empty): pending_segments -= 1 and
\* the result is queued; or it raises: an error result is queued and
\* pending_segments = max(0, pending_segments - 1)
WorkerFinish(j) ==
    /\ pl[j].worker = "busy"
    /\ pl[j].pc # "f_flush"
    /\ \/ \E t \in Texts \cup {EmptyStr} :
            pl' = [pl EXCEPT ![j].pending = @ - 1,
                     ![j].rq = QueuePut(@, [n |-> pl[j].wseg, text |-> t, err |-> FALSE]),
                     ![j].worker = AfterWork(j), ![j].wseg = 0]
       \/ pl' = [pl EXCEPT ![j].pending = IF @ - 1 > 0 THEN @ - 1 ELSE 0,
                     ![j].rq = QueuePut(@, [n |-> pl[j].wseg, text |-> EmptyStr, err |-> TRUE]),
                     ![j].worker = AfterWork(j), ![j].wseg = 0]
    /\ UNCHANGED <<scn, got, total_summary, room_task, is_ready, vad, conv, stt, faults, db, segments, appended, errorLogs, cache, published, bt,
                   sse, rooms, req, active_jobs, sock, fin, emitted>>

\* ------------------------------------------------- StreamPipeline.finalize
\* the except branch of finalize: log_error("stream_finalize"), return an
\* error-shaped event
FinalizeRaise(j, why) ==
    /\ LogError(j, "stream_finalize")
    /\ fin' = [fin EXCEPT ![j].result = "error", ![j].cause = why]

\* flush_buffer(): a trailing segment is numbered and queued
FinalizeFlush(j) ==
    /\ pl[j].pc = "f_flush"
    /\ \/ /\ fin[j].calls = 1 /\ pl[j].segment_count < MaxSegs
          /\ sock[j].chunks > 0
          /\ pl' = [pl EXCEPT ![j].pc = "f_wait",
                              ![j].segment_count = @ + 1,
                              ![j].pending = @ + 1,
                              ![j].pq = QueuePut(@, pl[j].segment_count + 1)]
          /\ fin' = [fin EXCEPT ![j].inflight = @ \cup {pl[j].segment_count + 1}]
       \/ /\ pl' = [pl EXCEPT ![j].pc = "f_wait"]
          /\ UNCHANGED fin
    /\ UNCHANGED <<scn, got, total_summary, room_task, is_ready, vad, conv, stt, faults, db, segments, appended, errorLogs, cache, published, bt,
                   sse, rooms, req, active_jobs, sock, emitted>>

\* is_running = False; processing_queue.put(None)
StopWorker(j) ==
    [pl EXCEPT ![j].pc = "f_join", ![j].is_running = FALSE,
               ![j].pq = QueuePut(@, Sentinel)]

\* the drain loop "while pending_segments > 0": leave when the counter is 0
\* or the deadline passed; otherwise take a result: the branch for a
\* non-empty text reads result["tesx"], which raises KeyError; any other
\* result decrements the counter
FinalizeWait(j) ==
    /\ pl[j].pc = "f_wait"
    /\ \/ /\ pl[j].pending = 0
          /\ pl' = StopWorker(j)
          /\ UNCHANGED <<errorLogs, fin>>
       \/ /\ pl[j].pending > 0 /\ pl[j].rq # <<>>
          /\ LET r == Head(pl[j].rq) IN
             IF ~r.err /\ r.text # EmptyStr
             THEN /\ pl' = [pl EXCEPT ![j].rq = Tail(@), ![j].pc = "returned"]
                  /\ FinalizeRaise(j, "KeyError")
             ELSE /\ pl' = [pl EXCEPT ![j].rq = Tail(@),
                              ![j].pending = IF @ - 1 > 0 THEN @ - 1 ELSE 0]
                  /\ UNCHANGED <<errorLogs, fin>>
    /\ UNCHANGED <<scn, got, total_summary, room_task, is_ready, vad, conv, stt, faults, db, segments, appended, cache, published, bt, sse, rooms,
                   req, active_jobs, sock, emitted>>

\* the drain deadline (max_wait_time) passes with segments still pending
FinalizeDeadline(j) ==
    /\ pl[j].pc = "f_wait" /\ pl[j].pending > 0
    /\ pl' = StopWorker(j)
    /\ fin' = [fin EXCEPT ![j].deadline = TRUE]
    /\ UNCHANGED <<scn, got, total_summary, room_task, is_ready, vad, conv, stt, faults, db, segments, appended, errorLogs, cache, published, bt,
                   sse, rooms, req, active_jobs, sock, emitted>>

\* wait_for(worker_task, 10): the worker has ended, or it is cancelled on
\* timeout; then get_full_transcript() and update_status(TRANSCRIBED, ...)
FinalizeJoin(j) ==
    /\ pl[j].pc = "f_join"
    /\ pl[j].worker \in {"exited", "busy"}
    /\ LET final == Join(pl[j].full_transcript) IN
       \/ /\ final = EmptyStr
          /\ UpdateStatusOk(j, "TRANSCRIBED", EmptyStr, None, WarnNoSpeech)
          /\ pl' = [pl EXCEPT ![j].pc = "returned", ![j].worker = "exited"]
          /\ fin' = [fin EXCEPT ![j].result = "error", ![j].cause = "empty"]
          /\ UNCHANGED <<faults, errorLogs>>
       \/ /\ final # EmptyStr
          /\ UpdateStatusOk(j, "TRANSCRIBED", final, None, NoneText)
          /\ pl' = [pl EXCEPT ![j].pc = "f_summ", ![j].worker = "exited"]
          /\ UNCHANGED <<faults, errorLogs, fin>>
       \/ /\ CanFail /\ Fail
          /\ pl' = [pl EXCEPT ![j].pc = "returned", ![j].worker = "exited"]
          /\ FinalizeRaise(j, "storage")
          /\ UNCHANGED <<db, cache>>
    /\ UNCHANGED <<scn, got, total_summary, room_task, is_ready, vad, conv, stt, segments, appended, published, bt, sse, rooms, req, active_jobs,
                   sock, emitted>>

\* llm_service.get_summary(final_transcript) and update_status(COMPLETED,
\* summary); a summarizer or storage failure goes to the except branch
FinalizeSummarize(j) ==
    /\ pl[j].pc = "f_summ"
    /\ pl' = [pl EXCEPT ![j].pc = "returned"]
    /\ \/ /\ \E s \in Summaries :
               UpdateStatusOk(j, "COMPLETED", NoneText, s, NoneText)
          /\ fin' = [fin EXCEPT ![j].result = "final_summary",
                                ![j].total = pl[j].segment_count]
          /\ UNCHANGED <<faults, errorLogs>>
       \/ /\ FinalizeRaise(j, "summarizer")
          /\ UNCHANGED <<db, cache, faults>>
       \/ /\ CanFail /\ Fail
          /\ FinalizeRaise(j, "storage")
          /\ UNCHANGED <<db, cache>>
    /\ UNCHANGED <<scn, got, total_summary, room_task, is_ready, vad, conv, stt, segments, appended, published, bt, sse, rooms, req, active_jobs,
                   sock, emitted>>

LiveNext ==
    \/ \E q \in 1..MaxReqs : ReqStart(q) \/ ReqCheck(q) \/ ReqCreate(q)
    \/ \E j \in JobIds :
         \/ SockAccept(j) \/ ClientDisconnect(j) \/ SockReceive(j)
         \/ SockDrain(j) \/ SockOnDisconnect(j) \/ SockFlushDrain(j)
         \/ SockUnexpected(j) \/ SockFinish(j)
         \/ WorkerTake(j) \/ WorkerFinish(j)
         \/ FinalizeFlush(j) \/ FinalizeWait(j) \/ FinalizeDeadline(j)
         \/ FinalizeJoin(j) \/ FinalizeSummarize(j)

Next == BatchNext \/ SseNext \/ LiveNext

Spec == Init /\ [][Next]_vars

\* a batch upload and its SSE subscriber
InitBatch == Init /\ scn = "batch"
NextBatch == BatchNext \/ SseNext
SpecBatch == InitBatch /\ [][NextBatch]_vars

\* one stream-create request and its live socket
InitLive == Init /\ scn = "live"
SpecLive == InitLive /\ [][LiveNext]_vars

\* the batch pipeline and the live pipeline alone: no SSE subscriber, no
\* room aggregation
InitPipelines == Init /\ scn \in {"batch", "live"}

NextPipelines == BatchNext \/ LiveNext

SpecPipelines == InitPipelines /\ [][NextPipelines]_vars

\* ------------------------------------------------ the batch task redelivered
\* the broker delivers run_stt_and_summary_pipeline(job_id, path) once more
\* after the first run has returned: the pipeline starts again with fresh
\* locals, the file is the one the first run left
TaskRedeliver ==
    /\ bt.pc = "done" /\ bt.delivered = 0
    /\ bt' = [BtInit EXCEPT !.pc = "queued", !.job = bt.job, !.file = bt.file,
                            !.delivered = 1, !.before = db[bt.job],
                            !.beforeSegs = segments[bt.job]]
    /\ UNCHANGED <<scn, got, total_summary, room_task, is_ready, vad, conv, stt, faults, db, segments, appended, errorLogs, cache, published, sse, liveVars>>

NextRedeliver == BatchNext \/ TaskRedeliver

SpecRedeliver == InitBatch /\ [][NextRedeliver]_vars

\* ---------------------------------------------------- finalize called again
\* StreamPipeline.finalize() entered once more on a pipeline whose first
\* finalize() has returned
ReFinalize(j) ==
    /\ pl[j].pc = "returned" /\ fin[j].calls = 1
    /\ EnterFinalize(j)
    /\ UNCHANGED <<scn, got, total_summary, room_task, is_ready, vad, conv, stt, faults, db, segments, appended, errorLogs, cache,
                   published, bt, sse, rooms, req, active_jobs, sock, emitted>>

NextReFinalize == Next \/ \E j \in JobIds : ReFinalize(j)

SpecReFinalize == Init /\ [][NextReFinalize]_vars

\* ------------------------------------------------------ _is_hallucination
\* texts are sequences of characters here; a Hangul syllable of the ban
\* list is written as its romanized name ("a_" for U+C544, "o_" for U+C624)
ban_list == << <<"a_", ".", ".", ".">>, <<"a_", " ", "a_">>, <<"o_", "o_">>,
              <<"ko", "ko">>, <<"M", "B", "C">>, <<"gu", "dok">>,
              <<"joh", "a_", "yo">> >>

StartsWith(text, i, ban) ==
    /\ i + Len(ban) - 1 <= Len(text)
    /\ \A k \in 1..Len(ban) : text[i + k - 1] = ban[k]

RECURSIVE CountFrom(_, _, _)
\* str.count: occurrences that do not overlap, scanning from the left
CountFrom(text, i, ban) ==
    IF i > Len(text) THEN 0
    ELSE IF StartsWith(text, i, ban)
         THEN 1 + CountFrom(text, i + Len(ban), ban)
         ELSE CountFrom(text, i + 1, ban)

\* len(set(text.replace(" ", "")))
UniqueChars(text) == Cardinality({text[i] : i \in 1..Len(text)} \ {" "})

\* whisper_service._is_hallucination (unique_ratio < 0.2 written without
\* division)
is_hallucination(text) ==
    IF text = <<>> THEN FALSE
    ELSE \/ \E b \in 1..Len(ban_list) : CountFrom(text, 1, ban_list[b]) >= 2
         \/ /\ Len(text) > 10
            /\ UniqueChars(text) * 10 < 2 * Len(text)

SttAlphabet == {"a_", "o_", " ", "x"}
Repeated(c, n) == [i \in 1..n |-> c]

\* results the recognizer may give: one character repeated, or any short
\* text over the alphabet
RecognizerResults ==
    {Repeated(c, n) : c \in SttAlphabet \ {" "}, n \in 1..MaxTextLen}
    \cup UNION {[1..n -> SttAlphabet] : n \in 3..4}

\* transcribe_segment_from_bytes, after the recognizer returned result_text
GuardResult ==
    /\ scn = "stt" /\ ~stt.done
    /\ stt' = [stt EXCEPT !.done = TRUE,
                  !.returned = IF is_hallucination(stt.result_text)
                               THEN <<>> ELSE stt.result_text]
    /\ UNCHANGED <<scn, got, total_summary, room_task, is_ready, vad, conv, faults, db, segments, appended, errorLogs,
                   cache, published, bt, sse, rooms, req, active_jobs, sock, pl,
                   fin, emitted>>

InitStt ==
    /\ scn = "stt" /\ faults = 0 /\ db = [j \in JobIds |-> NoRow]
    /\ segments = [j \in JobIds |-> <<>>]
    /\ appended = [j \in JobIds |-> <<>>]
    /\ errorLogs = [j \in JobIds |-> <<>>]
    /\ cache = [j \in JobIds |-> NoCache]
    /\ published = [j \in JobIds |-> <<>>]
    /\ bt = BtInit /\ sse = SseInit /\ rooms = {}
    /\ req = [q \in 1..MaxReqs |-> ReqInit]
    /\ active_jobs = {}
    /\ sock = [j \in JobIds |-> SockInit]
    /\ pl = [j \in JobIds |-> PlInit]
    /\ fin = [j \in JobIds |-> FinInit]
    /\ emitted = [j \in JobIds |-> <<>>]
    /\ is_ready = [r \in Rooms |-> NotAsked]
    /\ vad = VadInit /\ conv = ConvInit
    /\ total_summary = [r \in Rooms |-> None]
    /\ room_task = [r \in Rooms |-> TaskInit]
    /\ got = [j \in JobIds |-> <<>>]
    /\ \E t \in RecognizerResults : stt = [SttInit EXCEPT !.result_text = t]
NextStt == GuardResult
SpecStt == InitStt /\ [][NextStt]_vars

\* ---------------------------------------------------- AudioStreamConverter
\* PCM byte counts one decoded packet may have
DecodedSizes == {0, 1, 480, 959, 960, 961, 1920, 2879}

RECURSIVE extract_frames_leaving_full_frame(_)
extract_frames_leaving_full_frame(buffer) ==
    IF Len(buffer) > target_frame_bytes
    THEN LET rest == extract_frames_leaving_full_frame(
                         SubSeq(buffer, target_frame_bytes + 1, Len(buffer)))
         IN [frames |-> <<SubSeq(buffer, 1, target_frame_bytes)>> \o rest.frames,
             buffer |-> rest.buffer]
    ELSE [frames |-> <<>>, buffer |-> buffer]

RECURSIVE extract_frames(_)
\* AudioStreamConverter._extract_frames: the frames taken from the front of
\* the buffer and what is left of it
extract_frames(buffer) ==
    IF Len(buffer) >= target_frame_bytes
    THEN LET rest == extract_frames(
                         SubSeq(buffer, target_frame_bytes + 1, Len(buffer)))
         IN [frames |-> <<SubSeq(buffer, 1, target_frame_bytes)>> \o rest.frames,
             buffer |-> rest.buffer]
    ELSE [frames |-> <<>>, buffer |-> buffer]

\* convert_and_buffer on a streaming format: the packet decodes to d PCM
\* bytes (numbered in stream order), which are appended to the buffer, and
\* the full frames are taken out
convert_and_buffer(c, d) ==
    LET pcm_data == [i \in 1..d |-> c.decoded + i]
        x == extract_frames(c.buffer \o pcm_data)
    IN [c EXCEPT !.buffer = x.buffer,
                 !.total_output_frames = @ + Len(x.frames),
                 !.frames = @ \o x.frames,
                 !.sizes = Append(@, d),
                 !.decoded = @ + d]

\* a packet arrives: it decodes, or decoding raises and the call returns []
ConvertChunk ==
    /\ scn = "conv" /\ Len(conv.sizes) < MaxCalls
    /\ \/ \E d \in DecodedSizes : conv' = convert_and_buffer(conv, d)
       \/ conv' = [conv EXCEPT !.sizes = Append(@, 0)]
    /\ UNCHANGED <<scn, got, total_summary, room_task, is_ready, vad, stt, faults, db, segments, appended, errorLogs, cache,
                   published, bt, sse, rooms, req, active_jobs, sock, pl, fin,
                   emitted>>

InitConv == scn = "conv" /\ faults = 0 /\ db = [j \in JobIds |-> NoRow] /\ InitRest
NextConv == ConvertChunk
SpecConv == InitConv /\ [][NextConv]_vars

\* ------------------------------------------------------------ VADProcessor
\* a reset that forgets the buffer but keeps the speech counter
VadResetKeepsCount(v) ==
    [v EXCEPT !.speech_buffer = <<>>, !.in_speech = FALSE,
              !.silence_frames = 0]

\* VADProcessor._reset
VadReset(v) ==
    [v EXCEPT !.speech_buffer = <<>>, !.in_speech = FALSE,
              !.silence_frames = 0, !.speech_frames = 0]

process_chunk_no_idle_reset(v, is_speech) ==
    LET k == Len(v.frames) + 1
        w == [v EXCEPT !.frames = Append(@, is_speech)]
    IN IF is_speech
       THEN [w EXCEPT !.speech_buffer = Append(@, k),
                      !.speech_frames = @ + 1,
                      !.silence_frames = 0,
                      !.in_speech = (@ \/ v.speech_frames + 1 >= VAD_MIN_SPEECH_FRAMES)]
       ELSE IF v.in_speech
            THEN IF v.silence_frames + 1 < VAD_MAX_SILENCE_FRAMES
                 THEN [w EXCEPT !.silence_frames = @ + 1,
                                !.speech_buffer = Append(@, k)]
                 ELSE [VadReset(w) EXCEPT !.out = Append(@, v.speech_buffer)]
            ELSE w

\* VADProcessor.process_chunk on a frame of the right size whose speech
\* probability is (is_speech) or is not above the threshold; k is the
\* number of the frame
process_chunk(v, is_speech) ==
    LET k == Len(v.frames) + 1
        w == [v EXCEPT !.frames = Append(@, is_speech)]
    IN IF is_speech
       THEN [w EXCEPT !.speech_buffer = Append(@, k),
                      !.speech_frames = @ + 1,
                      !.silence_frames = 0,
                      !.in_speech = (@ \/ v.speech_frames + 1 >= VAD_MIN_SPEECH_FRAMES)]
       ELSE IF v.in_speech
            THEN IF v.silence_frames + 1 < VAD_MAX_SILENCE_FRAMES
                 THEN [w EXCEPT !.silence_frames = @ + 1,
                                !.speech_buffer = Append(@, k)]
                 ELSE [VadReset(w) EXCEPT !.out = Append(@, v.speech_buffer)]
            ELSE [w EXCEPT !.speech_buffer = <<>>, !.speech_frames = 0]

\* one frame is given to the segmenter
VadFrame ==
    /\ scn = "vad" /\ ~vad.flushed /\ Len(vad.frames) < MaxFrames
    /\ \E is_speech \in BOOLEAN : vad' = process_chunk(vad, is_speech)
    /\ UNCHANGED <<scn, got, total_summary, room_task, is_ready, conv, stt, faults, db, segments, appended, errorLogs, cache,
                   published, bt, sse, rooms, req, active_jobs, sock, pl, fin,
                   emitted>>

\* self.frame_bytes = int(sample_rate * (frame_duration_ms / 1000.0) * 2)
frame_bytes == (VAD_SAMPLE_RATE * VAD_FRAME_DURATION_MS * 2) \div 1000

\* chunk lengths that are not one frame
BadLens == {0, frame_bytes - 2, frame_bytes + 2, 2 * frame_bytes}

\* VADProcessor.process_chunk on a chunk of n bytes, n # frame_bytes:
\* "if len(audio_chunk) != self.frame_bytes: return None"
process_bad_chunk(v, n) ==
    IF n # frame_bytes THEN [v EXCEPT !.bad = @ + 1] ELSE v

\* a chunk of another size is given to the segmenter
VadBadChunk ==
    /\ scn = "vad" /\ ~vad.flushed /\ vad.bad < MaxBadChunks
    /\ \E n \in BadLens : vad' = process_bad_chunk(vad, n)
    /\ UNCHANGED <<scn, got, total_summary, room_task, is_ready, conv, stt, faults, db, segments, appended, errorLogs, cache,
                   published, bt, sse, rooms, req, active_jobs, sock, pl, fin,
                   emitted>>

\* VADProcessor.flush at the end of the connection
VadFlush ==
    /\ scn = "vad" /\ ~vad.flushed
    /\ vad' = IF vad.speech_buffer # <<>>
                 /\ vad.speech_frames >= VAD_MIN_SPEECH_FRAMES
              THEN [VadReset(vad) EXCEPT !.out = Append(@, vad.speech_buffer),
                                         !.flushed = TRUE]
              ELSE [vad EXCEPT !.flushed = TRUE]
    /\ UNCHANGED <<scn, got, total_summary, room_task, is_ready, conv, stt, faults, db, segments, appended, errorLogs, cache,
                   published, bt, sse, rooms, req, active_jobs, sock, pl, fin,
                   emitted>>

InitVad == scn = "vad" /\ faults = 0 /\ db = [j \in JobIds |-> NoRow] /\ InitRest
NextVad == VadFrame \/ VadBadChunk \/ VadFlush
SpecVad == InitVad /\ [][NextVad]_vars

\* ------------------------------------------------------- room readiness
\* the rows of T_STT_JOB at the time of the call: each job id is unused, or
\* a job of some room (or of none) in any status
RowWith(room, st) == [NewRow("REALTIME", room, "m1") EXCEPT !.status = st]

InitRoomReady ==
    /\ scn = "ready"
    /\ faults = 0
    /\ db \in [JobIds -> {NoRow} \cup {RowWith(r, st) : r \in Rooms \cup {None},
                                                       st \in Statuses}]
    /\ InitRest

Count(r, st) == Cardinality({j \in JobIds : db[j].present /\ db[j].room = r
                                            /\ db[j].status = st})

\* DatabaseService.get_room_job_status_summary: count(*) and one sum per
\* status over the rows with room_id = r
get_room_job_status_summary(r) ==
    [total |-> Cardinality({j \in JobIds : db[j].present /\ db[j].room = r}),
     pending |-> Count(r, "PENDING"),
     processing |-> Count(r, "PROCESSING"),
     transcribed |-> Count(r, "TRANSCRIBED"),
     completed |-> Count(r, "COMPLETED"),
     failed |-> Count(r, "FAILED")]

\* the readiness test without its last conjunct, ready == total
is_room_ready_without_ready_eq_total(r) ==
    LET summary == get_room_job_status_summary(r)
    IN /\ summary.total > 0
       /\ summary.pending = 0
       /\ summary.processing = 0

\* DatabaseService.is_room_ready_for_summary
is_room_ready_for_summary(r) ==
    LET summary == get_room_job_status_summary(r)
        ready == summary.transcribed + summary.completed
    IN /\ summary.total > 0
       /\ summary.pending = 0
       /\ summary.processing = 0
       /\ ready = summary.total

\* is_ready = await job_manager.is_room_ready_for_summary(room_id)
RoomSummaryCheck(r) ==
    /\ scn = "ready"
    /\ ~is_ready[r].called
    /\ is_ready' = [is_ready EXCEPT ![r] =
                       [called |-> TRUE, value |-> is_room_ready_for_summary(r)]]
    /\ UNCHANGED <<scn, got, total_summary, room_task, vad, conv, stt, faults, db, segments, appended, errorLogs, cache, published,
                   bt, sse, rooms, req, active_jobs, sock, pl, fin, emitted>>

NextRoomReady == \E r \in Rooms : RoomSummaryCheck(r)

SpecRoomReady == InitRoomReady /\ [][NextRoomReady]_vars

\* ------------------------------------------ check_and_trigger_room_summary
\* generate_room_summary_task.delay(room_id) behind "if not is_ready:
\* return False": the number of tasks scheduled by one call
delay_if_ready(ready) == IF ready THEN 1 ELSE 0

\* JobManager.check_and_trigger_room_summary(r): the readiness query, then
\* the task is scheduled or not; a query that fails is logged and the call
\* answers False
CheckAndTriggerRoomSummary(r) ==
    /\ scn = "live" /\ room_task[r].checks < MaxTriggers
    /\ \/ /\ room_task' = [room_task EXCEPT
                 ![r].checks = @ + 1,
                 ![r].scheduled = @ + delay_if_ready(is_room_ready_for_summary(r))]
          /\ UNCHANGED faults
       \/ /\ CanFail /\ Fail
          /\ room_task' = [room_task EXCEPT ![r].checks = @ + 1]
    /\ UNCHANGED <<scn, got, total_summary, is_ready, vad, conv, stt, db, segments, appended, errorLogs, cache, published, bt,
                   sse, rooms, req, active_jobs, sock, pl, fin, emitted>>

\* the live path and callers of the room trigger
InitRoomTrigger == Init /\ scn = "live"
NextRoomTrigger == LiveNext \/ \E r \in Rooms : CheckAndTriggerRoomSummary(r)
SpecRoomTrigger == InitRoomTrigger /\ [][NextRoomTrigger]_vars

\* ------------------------------------------------- generate_room_summary_task
\* the rows of T_STT_JOB when the task runs: a job that is TRANSCRIBED or
\* COMPLETED has a transcript or, when nothing was recognized, NULL
RowOf(room, st, tr) == [RowWith(room, st) EXCEPT !.transcript = tr]

TaskRows ==
    {RowWith(r, st) : r \in Rooms \cup {None}, st \in {"PENDING", "PROCESSING", "FAILED"}}
    \cup {RowOf(r, st, tr) : r \in Rooms \cup {None}, st \in {"TRANSCRIBED", "COMPLETED"},
                             tr \in Texts \cup {NoneText}}

InitRoomTask ==
    /\ scn = "roomtask" /\ faults = 0
    /\ db \in [JobIds -> {NoRow} \cup TaskRows]
    /\ segments = [j \in JobIds |-> <<>>]
    /\ appended = [j \in JobIds |-> <<>>]
    /\ errorLogs = [j \in JobIds |-> <<>>]
    /\ cache = [j \in JobIds |-> NoCache]
    /\ published = [j \in JobIds |-> <<>>]
    /\ bt = BtInit /\ sse = SseInit /\ rooms = Rooms
    /\ req = [q \in 1..MaxReqs |-> ReqInit]
    /\ active_jobs = {}
    /\ sock = [j \in JobIds |-> SockInit]
    /\ pl = [j \in JobIds |-> PlInit]
    /\ fin = [j \in JobIds |-> FinInit]
    /\ emitted = [j \in JobIds |-> <<>>]
    /\ is_ready = [r \in Rooms |-> NotAsked]
    /\ vad = VadInit /\ conv = ConvInit /\ stt = SttInit
    /\ total_summary = [r \in Rooms |-> None]
    /\ room_task = [r \in Rooms |-> TaskInit]
    /\ got = [j \in JobIds |-> <<>>]

\* job ids in the order of their reg_dttm (ids are given in creation order)
RECURSIVE Ascending(_)
Ascending(S) ==
    IF S = {} THEN <<>>
    ELSE LET m == CHOOSE x \in S : \A y \in S : x <= y
         IN <<m>> \o Ascending(S \ {m})

\* DatabaseService.get_completed_room_transcripts: the jobs of the room
\* that are COMPLETED or TRANSCRIBED and whose transcript is not NULL,
\* ordered by reg_dttm
get_completed_room_transcripts(r) ==
    Ascending({j \in JobIds : /\ db[j].present /\ db[j].room = r
                              /\ db[j].status \in {"COMPLETED", "TRANSCRIBED"}
                              /\ db[j].transcript # NoneText})

\* the text built by the task: per job a separator block naming the member
\* and the creation time, then the transcript
RECURSIVE combined_text(_)
combined_text(items) ==
    IF items = <<>> THEN <<>>
    ELSE LET j == Head(items)
         IN <<"=", "participant", db[j].member, "time", ToString(j), "=">>
            \o db[j].transcript \o combined_text(Tail(items))

\* @celery_app.task(bind=True, max_retries=5)
max_retries == 5

\* self.retry(countdown=10, exc=...): the task is sent again with
\* retries + 1 unless that exceeds max_retries, then exc is raised; either
\* way the exception is caught around asyncio.run and the run returns
\* "failed" to the worker
retry(t) ==
    IF t.retries + 1 > max_retries
    THEN [t EXCEPT !.status = "failed"]
    ELSE [t EXCEPT !.status = "retry", !.retries = @ + 1]

\* one run of the task: not ready -> retry; nothing to summarize ->
\* no_content; else get_summary(combined_text) and update_room_summary; a
\* summarizer error or a room row that is not there ends the run as failed
GenerateRoomSummaryTask(r) ==
    /\ scn = "roomtask"
    /\ room_task[r].status \in {None, "retry"}
    /\ LET transcripts == get_completed_room_transcripts(r)
           t == [room_task[r] EXCEPT !.runs = @ + 1] IN
       IF ~is_room_ready_for_summary(r)
       THEN /\ room_task' = [room_task EXCEPT ![r] = retry(t)]
            /\ UNCHANGED total_summary
       ELSE IF transcripts = <<>>
       THEN /\ room_task' = [room_task EXCEPT ![r] =
                   [t EXCEPT !.status = "no_content"]]
            /\ UNCHANGED total_summary
       ELSE \/ \E summary_result \in Summaries :
                 /\ r \in rooms
                 /\ total_summary' = [total_summary EXCEPT ![r] = summary_result]
                 /\ room_task' = [room_task EXCEPT ![r] =
                        [t EXCEPT !.status = "completed",
                                  !.transcripts = transcripts,
                                  !.combined_text = combined_text(transcripts),
                                  !.summary = summary_result]]
            \/ /\ room_task' = [room_task EXCEPT ![r] =
                      [t EXCEPT !.status = "failed"]]
               /\ UNCHANGED total_summary
    /\ UNCHANGED <<scn, got, faults, db, segments, appended, errorLogs, cache, published, bt, sse,
                   rooms, req, active_jobs, sock, pl, fin, emitted, is_ready, vad,
                   conv, stt>>

\* between two runs of the task the pipeline of a job of the room moves
\* it on: update_status(PROCESSING), (TRANSCRIBED, transcript), (COMPLETED)
RoomJobAdvances(j) ==
    /\ scn = "roomtask" /\ db[j].present /\ db[j].room \in Rooms
    /\ room_task[db[j].room].status = "retry"
    /\ \/ /\ db[j].status = "PENDING"
          /\ db' = [db EXCEPT ![j].status = "PROCESSING"]
       \/ /\ db[j].status = "PROCESSING"
          /\ \E tr \in Texts \cup {NoneText} :
                db' = [db EXCEPT ![j].status = "TRANSCRIBED", ![j].transcript = tr]
       \/ /\ db[j].status = "TRANSCRIBED"
          /\ db' = [db EXCEPT ![j].status = "COMPLETED"]
    /\ UNCHANGED <<scn, got, total_summary, room_task, faults, segments, appended, errorLogs, cache, published, bt, sse,
                   rooms, req, active_jobs, sock, pl, fin, emitted, is_ready, vad,
                   conv, stt>>

NextRoomTask ==
    \/ \E r \in Rooms : GenerateRoomSummaryTask(r)
    \/ \E j \in JobIds : RoomJobAdvances(j)

SpecRoomTask == InitRoomTask /\ [][NextRoomTask]_vars

\* ------------------------------------------------------- JobManager.get_job
\* a job row and its mirror: the mirror is there, or it is missing because
\* cache.create_job failed when the job was created (the failure is only
\* logged) and every later cache.update_job found no entry
MirrorOf(row) ==
    [present |-> TRUE, status |-> Lower(row.status), transcript |-> row.transcript,
     summary |-> row.summary, error |-> row.error]

GetJobRows == {RowOf(None, st, NoneText) : st \in {"PENDING", "PROCESSING"}}
              \cup {RowOf(None, "TRANSCRIBED", tr) : tr \in Texts}

InitGetJobRows ==
    /\ scn = "getjob"
    /\ db \in [JobIds -> {NoRow} \cup GetJobRows]
    /\ cache \in [JobIds -> {NoCache} \cup {MirrorOf(row) : row \in GetJobRows}]
    /\ \A j \in JobIds : cache[j].present => cache[j] = MirrorOf(db[j])
    /\ segments = [j \in JobIds |-> <<>>]
    /\ appended = [j \in JobIds |-> <<>>]
    /\ errorLogs = [j \in JobIds |-> <<>>]
    /\ published = [j \in JobIds |-> <<>>]
    /\ bt = BtInit /\ sse = SseInit /\ rooms = {}
    /\ req = [q \in 1..MaxReqs |-> ReqInit]
    /\ active_jobs = {}
    /\ sock = [j \in JobIds |-> SockInit]
    /\ pl = [j \in JobIds |-> PlInit]
    /\ fin = [j \in JobIds |-> FinInit]
    /\ emitted = [j \in JobIds |-> <<>>]
    /\ is_ready = [r \in Rooms |-> NotAsked]
    /\ vad = VadInit /\ conv = ConvInit /\ stt = SttInit
    /\ total_summary = [r \in Rooms |-> None]
    /\ room_task = [r \in Rooms |-> TaskInit]
    /\ got = [j \in JobIds |-> <<>>]

InitGetJob == faults = 0 /\ InitGetJobRows

\* the dictionary get_job returns, from the mirror or from the row
JobRecord(x) ==
    [status |-> x.status, transcript |-> x.transcript, summary |-> x.summary,
     error |-> x.error]

\* cache_service.update_job: get_job(job_id) first, which raises when the
\* key is missing; otherwise the updates are merged into the entry
update_job(c, updates) ==
    IF ~c.present THEN c
    ELSE [c EXCEPT !.status = updates.status, !.transcript = updates.transcript,
                   !.summary = updates.summary, !.error = updates.error]

\* JobManager._update_cache_from_db: status in lower case and the other
\* columns, through cache.update_job; every exception is swallowed
update_cache_from_db(c, db_data) ==
    update_job(c, [JobRecord(db_data) EXCEPT !.status = Lower(db_data.status)])

\* JobManager.get_job: a hit returns the mirror; a miss reads the row,
\* calls _update_cache_from_db and returns the row; durable is the status
\* of the row at the time of the call
JobManagerGetJob(j) ==
    /\ scn = "getjob"
    /\ db[j].present /\ Len(got[j]) < MaxGets
    /\ IF cache[j].present
       THEN /\ got' = [got EXCEPT ![j] =
                   Append(@, [hit |-> TRUE, job |-> JobRecord(cache[j]),
                               durable |-> db[j].status])]
            /\ UNCHANGED cache
       ELSE /\ got' = [got EXCEPT ![j] =
                   Append(@, [hit |-> FALSE, job |-> JobRecord(db[j]),
                               durable |-> db[j].status])]
            /\ cache' = [cache EXCEPT ![j] = update_cache_from_db(@, db[j])]
    /\ UNCHANGED <<scn, faults, db, segments, appended, errorLogs, published, bt, sse,
                   rooms, req, active_jobs, sock, pl, fin, emitted, is_ready, vad,
                   conv, stt, total_summary, room_task>>

NextGetJob == \E j \in JobIds : JobManagerGetJob(j)

SpecGetJob == InitGetJob /\ [][NextGetJob]_vars

\* the statuses a pipeline writes after st
LaterStatuses(st) ==
    IF st = "PENDING" THEN {"PROCESSING"}
    ELSE IF st = "PROCESSING" THEN {"TRANSCRIBED", "COMPLETED"}
    ELSE IF st = "TRANSCRIBED" THEN {"COMPLETED"}
    ELSE {}

\* JobManager.update_status(j, st) returns True: the row is updated, then
\* cache.update_job is tried; when it raises, the manager logs a warning
\* and still returns True
JobManagerUpdateStatus(j) ==
    /\ scn = "getjob" /\ db[j].present
    /\ \E st \in LaterStatuses(db[j].status) :
         /\ db' = [db EXCEPT ![j] = DbUpdated(@, st, NoneText, None, NoneText)]
         /\ \/ /\ cache' = [cache EXCEPT ![j] =
                      CacheUpdated(@, st, NoneText, None, NoneText)]
               /\ UNCHANGED faults
            \/ /\ CanFail /\ Fail
               /\ UNCHANGED cache
    /\ UNCHANGED <<scn, got, segments, appended, errorLogs, published, bt, sse,
                   rooms, req, active_jobs, sock, pl, fin, emitted, is_ready, vad,
                   conv, stt, total_summary, room_task>>

\* status updates and reads of one job, with a mirror that can fail
InitUpdateStatus ==
    /\ faults \in 0..MaxFaults /\ InitGetJobRows
    /\ \A j \in JobIds : db[j].present <=> j = 1
NextUpdateStatus ==
    \/ \E j \in JobIds : JobManagerGetJob(j)
    \/ \E j \in JobIds : JobManagerUpdateStatus(j)
SpecUpdateStatus == InitUpdateStatus /\ [][NextUpdateStatus]_vars

\* ===================================================================
\*                      properties of the job lifecycle
\* ===================================================================
RECURSIVE SelectEvents(_, _)
SelectEvents(evs, type) ==
    IF evs = <<>> THEN <<>>
    ELSE IF Head(evs).type = type
         THEN <<Head(evs)>> \o SelectEvents(Tail(evs), type)
         ELSE SelectEvents(Tail(evs), type)

RECURSIVE LiveEvents(_)
LiveEvents(evs) ==
    IF evs = <<>> THEN <<>>
    ELSE IF Head(evs).hist THEN LiveEvents(Tail(evs))
         ELSE <<Head(evs)>> \o LiveEvents(Tail(evs))

Numbers(evs) == [i \in 1..Len(evs) |-> evs[i].n]
Dense(evs) == Numbers(evs) = [i \in 1..Len(evs) |-> i]

StepOK(s, t) ==
    \/ s = t
    \/ t = "FAILED"
    \/ <<s, t>> \in {<<"PENDING", "PROCESSING">>, <<"PROCESSING", "TRANSCRIBED">>,
                     <<"TRANSCRIBED", "COMPLETED">>}

\* C1: the successive durable statuses of a job form a prefix of
\* PENDING -> PROCESSING -> TRANSCRIBED -> COMPLETED, possibly followed by
\* FAILED; a row starts at PENDING and no update skips a stage or goes back.
C1_StatusMonotone ==
    [][\A j \in JobIds :
          /\ (~db[j].present /\ db'[j].present) => db'[j].status = "PENDING"
          /\ (db[j].present /\ db'[j].present) => StepOK(db[j].status, db'[j].status)]_vars

\* the subscriber of the batch job has attached and nothing is in flight
SseQuiet ==
    /\ bt.pc = "done" /\ sse.job = bt.job /\ ~sse.gone
    /\ sse.pc \in {"listening", "closed"} /\ sse.inbox = <<>>

\* C2: for a batch run that published its final_summary, a subscriber that
\* took its backfill after `mark` messages had been published has received,
\* after the historical events, exactly the messages published after that
\* point, the last one being the final_summary.
C2_LateSubscriberComplete ==
    (SseQuiet /\ bt.ret = "completed" /\ bt.sum # None
       /\ Len(segments[bt.job]) = Len(bt.ts))
    => /\ LiveEvents(sse.received)
            = SubSeq(published[bt.job], sse.mark + 1, Len(published[bt.job]))
       /\ sse.received # <<>>
       /\ sse.received[Len(sse.received)].type = "final_summary"

TextOrEmpty(t) == IF t = NoneText THEN EmptyStr ELSE t

\* C3: whenever a job is TRANSCRIBED, its stored segment texts joined with
\* single spaces are its stored transcript (a NULL transcript read as "").
C3_SegmentsReconstructTranscript ==
    \A j \in JobIds :
        (db[j].present /\ db[j].status = "TRANSCRIBED")
        => Join(segments[j]) = TextOrEmpty(db[j].transcript)

\* C4: the segment numbers carried by the transcript_segment events of a
\* job are 1, 2, ..., N in order: on the live socket, on the job's channel,
\* and on the historical events of an SSE backfill.
C4_SequenceNumbersDense ==
    /\ \A j \in JobIds :
         /\ Dense(SelectEvents(emitted[j], "transcript_segment"))
         /\ Dense(SelectEvents(published[j], "transcript_segment"))
    /\ sse.pc \in {"status", "listening", "closed"}
         => Dense(SelectEvents(sse.received, "transcript_segment"))

\* C5: once a first finalize() has left the job COMPLETED, a second
\* finalize() on the same pipeline never shows a job row or a segment list
\* different from the ones it found.
C5_FinalizeIdempotent ==
    \A j \in JobIds :
        (fin[j].calls = 2 /\ fin[j].before.status = "COMPLETED")
        => /\ db[j] = fin[j].before
           /\ segments[j] = fin[j].beforeSegs

JobsOfRoom(r) == {j \in JobIds : db[j].present /\ db[j].room = r}

\* C6: is_room_ready_for_summary(r) answers true exactly when room r has a
\* job and every job of r is TRANSCRIBED or COMPLETED.
C6_RoomReadyIff ==
    \A r \in Rooms :
        is_ready[r].called
        => (is_ready[r].value
              <=> /\ JobsOfRoom(r) # {}
                  /\ \A j \in JobsOfRoom(r) :
                        db[j].status \in {"TRANSCRIBED", "COMPLETED"})

\* a room whose jobs are all finished except a FAILED one was asked about
C6_Witness ==
    \E r \in Rooms :
        /\ is_ready[r].called /\ ~is_ready[r].value
        /\ \E j \in JobsOfRoom(r) : db[j].status = "FAILED"
        /\ \E j \in JobsOfRoom(r) : db[j].status = "TRANSCRIBED"
        /\ \A j \in JobsOfRoom(r) :
              db[j].status \in {"TRANSCRIBED", "COMPLETED", "FAILED"}

ActiveDuplicates(r, m) ==
    {j \in JobIds : /\ db[j].present /\ db[j].room = r /\ db[j].member = m
                    /\ db[j].status \in {"PENDING", "PROCESSING"}}

\* C7: a stream-create request that passes its duplicate check while a job
\* of the same room and member is PENDING or PROCESSING is answered with the
\* conflict naming such a job, and never goes on to create a row or an
\* active_jobs entry.
C7_DuplicateRejected ==
    [][\A q \in 1..MaxReqs :
          (/\ req[q].pc = "check" /\ req'[q].pc # "check"
           /\ ActiveDuplicates(req[q].room, req[q].member) # {})
          => /\ req'[q].pc = "conflict"
             /\ req'[q].existing \in ActiveDuplicates(req[q].room, req[q].member)
             /\ db' = db /\ active_jobs' = active_jobs]_vars

IsPrefix(p, q) == Len(p) <= Len(q) /\ p = SubSeq(q, 1, Len(p))

C12_FinalizeExactlyOnce ==
    \A j \in JobIds :
        /\ fin[j].calls <= 1
        /\ (sock[j].pc = "ended" /\ pl[j].pc # "none") => fin[j].calls = 1

\* number of non-speech frames at the end of a frame history
RECURSIVE TrailingSilence(_)
TrailingSilence(fs) ==
    IF fs = <<>> \/ fs[Len(fs)] THEN 0
    ELSE 1 + TrailingSilence(SubSeq(fs, 1, Len(fs) - 1))

\* the last n frames of the history exist and are all speech
EndsWithSpeechRun(fs, n) ==
    /\ Len(fs) >= n
    /\ \A i \in (Len(fs) - n + 1)..Len(fs) : fs[i]

\* C13: in_speech is only ever set by a frame that completes a run of
\* VAD_MIN_SPEECH_FRAMES speech frames, a segment is only returned from
\* in_speech, and while in_speech a non-speech run shorter than
\* VAD_MAX_SILENCE_FRAMES leaves the segment open and the speech frame after
\* it resets the silence counter.
C13_VadHysteresis ==
    [][/\ (~vad.in_speech /\ vad'.in_speech)
           => EndsWithSpeechRun(vad'.frames, VAD_MIN_SPEECH_FRAMES)
       /\ vad'.out # vad.out
           => \/ vad.in_speech
              \/ vad.speech_frames >= VAD_MIN_SPEECH_FRAMES
       /\ (vad.in_speech /\ Len(vad'.frames) > Len(vad.frames)
              /\ TrailingSilence(vad'.frames) < VAD_MAX_SILENCE_FRAMES)
           => /\ vad'.in_speech /\ vad'.out = vad.out
              /\ vad'.speech_buffer = Append(vad.speech_buffer, Len(vad'.frames))
              /\ vad'.frames[Len(vad'.frames)] => vad'.silence_frames = 0]_vars

\* a stray speech frame in silence started nothing, and a two-frame pause
\* inside a segment did not close it
C13_Witness ==
    /\ Len(vad.frames) = 9
    /\ vad.frames = <<FALSE, TRUE, FALSE, TRUE, TRUE, TRUE, FALSE, FALSE, TRUE>>
    /\ vad.in_speech /\ vad.out = <<>>
    /\ vad.speech_buffer = <<4, 5, 6, 7, 8, 9>>

\* C14: every frame returned by convert_and_buffer has exactly
\* target_frame_bytes (960) bytes, the number of frames returned so far is
\* the whole part of (decoded bytes / 960), and the frames followed by the
\* carry buffer are the decoded bytes in stream order, the buffer holding
\* the remaining (decoded bytes mod 960).
C14_ConverterFraming ==
    LET n == Len(conv.frames) IN
    /\ target_frame_bytes = 960
    /\ \A i \in 1..n :
         /\ Len(conv.frames[i]) = 960
         /\ \A k \in 1..960 : conv.frames[i][k] = (i - 1) * 960 + k
    /\ n = conv.decoded \div 960
    /\ conv.total_output_frames = n
    /\ Len(conv.buffer) = conv.decoded % 960
    /\ \A k \in 1..Len(conv.buffer) : conv.buffer[k] = n * 960 + k

\* a frame was assembled from the carry of one packet and the start of the
\* next, and a carry is left
C14_Witness ==
    /\ conv.sizes = <<959, 1920>>
    /\ Len(conv.frames) = 2
    /\ Len(conv.buffer) = 959

SingleRepeatedChar(text) == text # <<>> /\ \A i \in 1..Len(text) : text[i] = text[1]

\* C15: the guard returns "" for every result that is one character
\* repeated at least 10 times and for every result in which a ban-phrase
\* occurs more than once, and returns a 3-character result without a
\* repeated ban-phrase unchanged.
C15_HallucinationGuard ==
    stt.done
    => LET t == stt.result_text
           banned == \E b \in 1..Len(ban_list) : CountFrom(t, 1, ban_list[b]) > 1
       IN /\ (SingleRepeatedChar(t) /\ Len(t) >= 10) => stt.returned = <<>>
          /\ banned => stt.returned = <<>>
          /\ (Len(t) = 3 /\ ~banned) => stt.returned = t

\* C16: a finalize() that returned final_summary leaves the job COMPLETED
\* with as many Segment rows as transcript_segment events were yielded and
\* reports that number as total_segments; and finalize() returns an error
\* only when there was no speech or the summarizer or the storage failed.
C16_LiveCountsAgree ==
    \A j \in JobIds :
        /\ fin[j].result = "final_summary"
           => /\ db[j].status = "COMPLETED"
              /\ Len(segments[j]) = Len(SelectEvents(emitted[j], "transcript_segment"))
              /\ fin[j].total = Len(segments[j])
        /\ fin[j].result = "error"
           => fin[j].cause \in {"empty", "summarizer", "storage"}

StrictlyIncreasing(ns) == \A i \in 1..(Len(ns) - 1) : ns[i] < ns[i + 1]

\* C17: within one job the segment numbers of the rows appended to storage,
\* of the transcript_segment events yielded on the live socket and of the
\* transcript_segment events published on the job's channel are each
\* strictly increasing, whatever the order of packet arrival, recognition
\* completion and result collection.
C17_SegmentsInOrder ==
    \A j \in JobIds :
        /\ StrictlyIncreasing(appended[j])
        /\ StrictlyIncreasing(Numbers(SelectEvents(emitted[j], "transcript_segment")))
        /\ StrictlyIncreasing(Numbers(SelectEvents(published[j], "transcript_segment")))

\* a live job whose two segments were both stored and yielded
C17_Witness ==
    \E j \in JobIds :
        /\ appended[j] = <<1, 2>>
        /\ Len(SelectEvents(emitted[j], "transcript_segment")) = 2

\* C18: once the live socket handler of a job has exited, on any exit path,
\* the job is no longer in active_jobs and the worker (with its executor)
\* of the job's pipeline, if one was started, has ended.
C18_SocketExitReleases ==
    \A j \in JobIds :
        sock[j].pc = "ended"
        => /\ j \notin active_jobs
           /\ pl[j].worker \in {"none", "exited"}

RECURSIVE TranscriptsOf(_)
TranscriptsOf(items) ==
    IF items = <<>> THEN <<>>
    ELSE TextOrEmpty(db[Head(items)].transcript) \o TranscriptsOf(Tail(items))

\* C19: when the room aggregation task has run for a room whose jobs are all
\* TRANSCRIBED or COMPLETED (and neither the summarizer nor the store
\* failed), the room's total_summary is not null, it is the summarizer's
\* output, and the summarizer was given the transcripts of the room's jobs
\* in creation order, a job without recognized text contributing nothing.
C19_RoomTotalSummary ==
    \A r \in Rooms :
        room_task[r].status \in {"completed", "no_content"}
        => /\ total_summary[r] # None
           /\ total_summary[r] = room_task[r].summary
           /\ TranscriptsOf(room_task[r].transcripts)
                = TranscriptsOf(Ascending(JobsOfRoom(r)))

\* C20: get_job answers from the cache when the entry is there; on a miss
\* for a job that has a durable row it returns that row, and the next
\* get_job for the same job is a cache hit that returns the same record.
C20_ReadThrough ==
    \A j \in JobIds :
        \A i \in 1..Len(got[j]) :
            ~got[j][i].hit
            => /\ got[j][i].job = JobRecord(db[j])
               /\ i < Len(got[j])
                  => /\ got[j][i + 1].hit
                     /\ got[j][i + 1].job = got[j][i].job

\* C21: when the batch task is delivered a second time for a job whose
\* first run has returned, the second run leaves the job row (status,
\* transcript, summary, error message) and the segment rows as it found them.
C21_BatchTaskIdempotent ==
    (bt.delivered = 1 /\ bt.pc = "done")
    => /\ db[bt.job] = bt.before
       /\ segments[bt.job] = bt.beforeSegs

\* C22: in every state of a job row, COMPLETED implies a stored summary,
\* and TRANSCRIBED or COMPLETED implies a stored (non-NULL) transcript.
C22_CompletedHasSummary ==
    \A j \in JobIds :
        db[j].present
        => /\ db[j].status = "COMPLETED" => db[j].summary # None
           /\ db[j].status \in {"TRANSCRIBED", "COMPLETED"}
                => db[j].transcript # NoneText

\* segments of a pipeline that were queued for recognition and whose
\* result has not been taken from result_queue yet
Outstanding(j) ==
    Len(SelectSeq(pl[j].pq, LAMBDA n : n # Sentinel))
    + (IF pl[j].worker = "busy" THEN 1 ELSE 0)
    + Len(pl[j].rq)

\* C23: in every state of a stream pipeline, pending_segments is the number
\* of segments queued for recognition whose result has not been taken from
\* the result queue, and it is never negative.
C23_PendingCounter ==
    \A j \in JobIds :
        /\ pl[j].pending >= 0
        /\ pl[j].pending = Outstanding(j)

\* finalize() takes the first result of result_queue in this step
FinalizeTakes(j) ==
    /\ pl[j].pc = "f_wait" /\ pl[j].rq # <<>>
    /\ pl'[j].rq = Tail(pl[j].rq)

HasText(r) == ~r.err /\ r.text # EmptyStr

\* C24: a finalize() whose drain deadline does not expire collects every
\* outstanding result as process_audio_chunk does: a non-empty text it takes
\* from the result queue is appended to the transcript and stored as a
\* segment row, and once the drain is over none of the segments that were
\* queued or in recognition when finalize() started is still unrecognized
\* or has its text left in the result queue.
C24_FinalizeCollects ==
    /\ [][\A j \in JobIds :
            (FinalizeTakes(j) /\ HasText(Head(pl[j].rq)))
            => /\ pl'[j].full_transcript
                    = Append(pl[j].full_transcript, Head(pl[j].rq).text)
               /\ \/ segments'[j] = Append(segments[j], Head(pl[j].rq).text)
                  \/ faults' < faults]_vars
    /\ [](\A j \in JobIds :
            (pl[j].pc \in {"f_join", "f_summ", "returned"} /\ ~fin[j].deadline)
            => /\ InRecognition(j) \cap fin[j].inflight = {}
               /\ \A i \in 1..Len(pl[j].rq) :
                     pl[j].rq[i].n \in fin[j].inflight => ~HasText(pl[j].rq[i]))

\* C25: whenever finalize() has returned, also after a drain timeout, the
\* job's durable status is TRANSCRIBED or COMPLETED, never PROCESSING.
C25_FinalizeAdvancesStatus ==
    \A j \in JobIds :
        pl[j].pc = "returned"
        => db[j].status \in {"TRANSCRIBED", "COMPLETED"}

\* C26: when finalize() has returned the recognition worker of the pipeline
\* has stopped (it took the sentinel or was cancelled at the join
\* deadline), and from then on no recognition result is produced for the job.
C26_WorkersStopped ==
    /\ [](\A j \in JobIds : pl[j].pc = "returned" => pl[j].worker = "exited")
    /\ [][\A j \in JobIds : pl[j].pc = "returned" => pl'[j].rq = pl[j].rq]_vars

\* the worker queues a result in this step
WorkerQueues(j) ==
    /\ pl[j].worker = "busy"
    /\ Len(pl'[j].rq) = Len(pl[j].rq) + 1

\* process_audio_chunk takes the first result of result_queue in this step
ChunkTakes(j) ==
    /\ sock[j].pc \in {"draining", "flush_drain"} /\ pl[j].rq # <<>>
    /\ pl'[j].rq = Tail(pl[j].rq)

C28_LiveSegmentsPublished ==
    [][\A j \in JobIds :
         (ChunkTakes(j) /\ HasText(Head(pl[j].rq)))
         => /\ \/ segments'[j] = Append(segments[j], Head(pl[j].rq).text)
               \/ faults' < faults
            /\ Len(published'[j]) = Len(published[j]) + 1
            /\ published'[j][Len(published'[j])].type = "transcript_segment"
            /\ published'[j][Len(published'[j])].n = Head(pl[j].rq).n]_vars

PublishedSegments(j) == SelectEvents(published[j], "transcript_segment")

FinalSummaries(j) ==
    {published[j][i] : i \in {k \in 1..Len(published[j]) :
                                 published[j][k].type = "final_summary"}}

\* C30: whenever a final_summary event of a batch job is on the channel, the
\* durable record of the job is already COMPLETED and stores the summary the
\* event carries; and a subscriber that is listening with nothing left to
\* read has not missed the final_summary of its job.
C30_FinalSummaryAfterCompleted ==
    /\ \A j \in JobIds : \A ev \in FinalSummaries(j) :
          /\ db[j].present
          /\ db[j].status = "COMPLETED"
          /\ db[j].summary = ev.summary
    /\ (sse.pc = "listening" /\ sse.inbox = <<>> /\ sse.job \in JobIds)
          => \A i \in 1..sse.sub :
                published[sse.job][i].type # "final_summary"

SpeechIn(seg, fs) == {i \in 1..Len(seg) : fs[seg[i]]}

\* C32: while in_speech a non-speech frame increments silence_frames; below
\* VAD_MAX_SILENCE_FRAMES the frame joins the carry and nothing is returned,
\* otherwise the carry without the closing frame is returned and the
\* counters, in_speech and the carry are reset; every returned segment
\* starts with a speech frame and holds at least VAD_MIN_SPEECH_FRAMES
\* speech frames.
C32_SilenceClosesSegment ==
    /\ [][(vad.in_speech /\ Len(vad'.frames) = Len(vad.frames) + 1
              /\ ~vad'.frames[Len(vad'.frames)])
          => IF vad.silence_frames + 1 < VAD_MAX_SILENCE_FRAMES
             THEN /\ vad'.silence_frames = vad.silence_frames + 1
                  /\ vad'.speech_buffer
                        = Append(vad.speech_buffer, Len(vad'.frames))
                  /\ vad'.out = vad.out
                  /\ vad'.in_speech
                  /\ vad'.speech_frames = vad.speech_frames
             ELSE /\ vad'.out = Append(vad.out, vad.speech_buffer)
                  /\ \A i \in 1..Len(vad.speech_buffer) :
                        vad.speech_buffer[i] # Len(vad'.frames)
                  /\ vad'.speech_frames = 0
                  /\ vad'.silence_frames = 0
                  /\ ~vad'.in_speech
                  /\ vad'.speech_buffer = <<>>]_vars
    /\ [](\A n \in 1..Len(vad.out) :
             /\ vad.out[n] # <<>>
             /\ vad.frames[vad.out[n][1]]
             /\ Cardinality(SpeechIn(vad.out[n], vad.frames))
                   >= VAD_MIN_SPEECH_FRAMES)

\* a segment was closed by the tenth silent frame after three speech frames
\* and the segmenter is back at rest
C32_Witness ==
    /\ Len(vad.frames) = VAD_MIN_SPEECH_FRAMES + VAD_MAX_SILENCE_FRAMES
    /\ Len(vad.out) = 1
    /\ Len(vad.out[1]) = VAD_MIN_SPEECH_FRAMES + VAD_MAX_SILENCE_FRAMES - 1
    /\ ~vad.in_speech /\ vad.speech_frames = 0 /\ vad.speech_buffer = <<>>
    /\ ~vad.flushed

\* C33: a call with a chunk that is not exactly one frame fails with
\* AudioFormatError and leaves speech_frames, silence_frames, in_speech and
\* the carry buffer as they were.
C33_BadChunkRejected ==
    [][vad'.bad = vad.bad + 1
       => /\ vad'.raised = vad.raised + 1
          /\ vad'.speech_frames = vad.speech_frames
          /\ vad'.silence_frames = vad.silence_frames
          /\ vad'.in_speech = vad.in_speech
          /\ vad'.speech_buffer = vad.speech_buffer]_vars

\* every socket handler of a job of room r has ended
HandlersEnded(r) ==
    \A j \in JobIds : (db[j].present /\ db[j].room = r) => sock[j].pc = "ended"

\* C34: a call of check_and_trigger_room_summary(r) schedules exactly one
\* aggregation task when the room is ready and none otherwise, touching
\* nothing else; and a room that is ready with all the handlers of its jobs
\* ended has had an aggregation task scheduled.
C34_ReadyRoomTriggered ==
    /\ [][\A r \in Rooms :
            (room_task'[r].checks = room_task[r].checks + 1 /\ faults' = faults)
            => /\ room_task'[r].scheduled = room_task[r].scheduled
                     + (IF is_room_ready_for_summary(r) THEN 1 ELSE 0)
               /\ db' = db /\ total_summary' = total_summary]_vars
    /\ [](\A r \in Rooms :
            (is_room_ready_for_summary(r) /\ HandlersEnded(r))
            => room_task[r].scheduled >= 1)

\* C35: every run of the room aggregation task re-checks readiness; a run
\* that finds the room not ready writes no summary and requeues the task,
\* which happens at most max_retries times, after which the task stops; a
\* run that finds the room ready does not requeue and, unless a call
\* failed, has written total_summary; the task runs at most
\* max_retries + 1 times.
C35_RoomTaskTerminates ==
    /\ [][\A r \in Rooms :
            room_task'[r].runs = room_task[r].runs + 1
            => IF ~is_room_ready_for_summary(r)
               THEN /\ total_summary'[r] = total_summary[r]
                    /\ IF room_task[r].retries < max_retries
                       THEN /\ room_task'[r].status = "retry"
                            /\ room_task'[r].retries = room_task[r].retries + 1
                       ELSE room_task'[r].status \notin {None, "retry"}
               ELSE /\ room_task'[r].status \notin {None, "retry"}
                    /\ room_task'[r].status # "failed"
                         => /\ room_task'[r].status = "completed"
                            /\ total_summary'[r] # None]_vars
    /\ [](\A r \in Rooms :
            /\ room_task[r].retries <= max_retries
            /\ room_task[r].runs <= max_retries + 1)

\* C36: when a send to the live socket has failed because the client
\* disconnected and the handler has ended, the pipeline was finalized, no
\* "websocket" ErrorLog row exists for the job and the job does not carry
\* the error outcome.
C36_SendDisconnectIsNormal ==
    \A j \in JobIds :
        (sock[j].sendfail /\ sock[j].pc = "ended")
        => /\ fin[j].calls >= 1
           /\ \A i \in 1..Len(errorLogs[j]) : errorLogs[j][i] # "websocket"
           /\ db[j].error # ErrText

\* C37: every get_job reports, ignoring letter case, the status the durable
\* row had when it was called, that is the status of the last update_status
\* that returned, also when the mirror write of that update failed.
C37_GetJobSeesLastStatus ==
    \A j \in JobIds :
        \A i \in 1..Len(got[j]) :
            Upper(got[j][i].job.status) = Upper(got[j][i].durable)

\* C38: at no time do two jobs of the same room and the same member both
\* have status PENDING or PROCESSING.
C38_OneActiveJobPerMember ==
    \A j, k \in JobIds :
        (/\ j # k /\ db[j].present /\ db[k].present
         /\ db[j].room \in Rooms /\ db[j].room = db[k].room
         /\ db[j].member = db[k].member)
        => ~(/\ Upper(db[j].status) \in {"PENDING", "PROCESSING"}
             /\ Upper(db[k].status) \in {"PENDING", "PROCESSING"})

\* C39: when no storage call has failed, a job whose socket handler has
\* ended or whose batch task has returned is no longer PROCESSING: it has
\* reached TRANSCRIBED, COMPLETED or FAILED.
C39_NoJobLeftProcessing ==
    faults = MaxFaults
    => /\ \A j \in JobIds :
             (db[j].present /\ sock[j].pc = "ended")
             => Upper(db[j].status) \in {"TRANSCRIBED", "COMPLETED", "FAILED"}
       /\ (bt.pc = "done" /\ bt.job \in JobIds)
             => Upper(db[bt.job].status) \in {"TRANSCRIBED", "COMPLETED", "FAILED"}

\* C8: a batch task that ended in failure has recorded an ErrorLog row and
\* left the job FAILED.
C8_BatchFailureMarksFailed ==
    (bt.pc = "done" /\ bt.ret = "failed")
    => /\ errorLogs[bt.job] # <<>>
       /\ db[bt.job].status = "FAILED"

\* C9: a batch run whose recognizer yielded no text ends TRANSCRIBED with
\* an error message, and a subscriber that was attached gets exactly one
\* error event and no final_summary.
C9_BatchEmptyTranscript ==
    (bt.pc = "done" /\ bt.ret = "completed" /\ bt.ts = <<>>)
    => /\ db[bt.job].status = "TRANSCRIBED"
       /\ db[bt.job].error # NoneText
       /\ SseQuiet => /\ Len(SelectEvents(sse.received, "error")) = 1
                      /\ SelectEvents(sse.received, "final_summary") = <<>>

\* C10: after a summarizer failure on a non-empty transcript the job is
\* TRANSCRIBED with its transcript and no summary, the failure is logged,
\* and an error event went out: the terminal event of finalize (live), an
\* error message on the job's channel (batch).
C10_SummarizerFailure ==
    /\ (bt.pc = "done" /\ bt.ret = "transcribed")
       => /\ db[bt.job].status = "TRANSCRIBED"
          /\ db[bt.job].transcript = bt.full
          /\ db[bt.job].summary = None
          /\ \E i \in 1..Len(errorLogs[bt.job]) : errorLogs[bt.job][i] = "batch_summary"
          /\ SelectEvents(published[bt.job], "error") # <<>>
    /\ \A j \in JobIds :
         (pl[j].pc = "returned" /\ fin[j].calls = 1 /\ fin[j].cause = "summarizer")
         => /\ db[j].status = "TRANSCRIBED"
            /\ db[j].transcript = Join(pl[j].full_transcript)
            /\ db[j].summary = None
            /\ \E i \in 1..Len(errorLogs[j]) : errorLogs[j][i] = "stream_finalize"
            /\ fin[j].result = "error"
====
